---- MODULE Spec2Model ----
(***************************************************************************)
(* Verification model of the BYD-Interfaz reconciliation engine:           *)
(*   - BusinessRulesService (admission profiles, classification rules),    *)
(*   - ServiceOrdersComponent (grouping, single/batch link, transmission), *)
(*   - ApiService link / order / transmission collaborators,               *)
(*   - MappingLinkerComponent.confirmBulkLink.                             *)
(* Text is modelled as a sequence of one-character strings so that trim,   *)
(* toUpperCase, includes and split are computed, not assumed.              *)
(***************************************************************************)
EXTENDS Integers, Sequences, FiniteSets, TLC

VARIABLES
    rules,                 \* BusinessRulesService.rulesSignal
    classificationRules,   \* BusinessRulesService.classificationRulesSignal
    nextUuid,              \* next value handed out by crypto.randomUUID()
    simulatorCode,         \* BusinessLogicComponent.simulatorCode
    simulatorDesc,         \* BusinessLogicComponent.simulatorDesc
    lastCall,              \* history: the setActiveRule / deleteRule call of the last step
    useMockData,           \* ApiService.useMockData
    selectedDealerCode,    \* ApiService.selectedDealerCode
    mockOrders,            \* ApiService.mockOrders (objects mutated in place)
    rawOrders,             \* ServiceOrdersComponent.rawOrders
    isLoading,             \* ServiceOrdersComponent.isLoading
    selectedOrder,         \* ServiceOrdersComponent.selectedOrder
    selectedBatchModelGroup,  \* ServiceOrdersComponent.selectedBatchModelGroup
    selectedBatchItems,       \* ServiceOrdersComponent.selectedBatchItems
    selectedBatchTargetCode,  \* ServiceOrdersComponent.selectedBatchTargetCode
    isBatchProcessing,        \* ServiceOrdersComponent.isBatchProcessing
    showTransmitModal,        \* ServiceOrdersComponent.showTransmitModal
    transmissionPayload,      \* ServiceOrdersComponent.transmissionPayload
    itemToLink,               \* ServiceOrdersComponent.itemToLink
    selectedCandidate,        \* ServiceOrdersComponent.selectedCandidate
    inflight,                 \* subscriptions whose response has not arrived yet
    notification,             \* the toast last passed to NotificationService.show
    lastEvent,                \* history: what the last step of the component did
    showLinkToOrderModal,     \* MappingLinkerComponent.showLinkToOrderModal
    selectedMappingForLink,   \* MappingLinkerComponent.selectedMappingForLink
    pendingOrderItems,        \* MappingLinkerComponent.pendingOrderItems
    selectedOrderItemsToLink, \* MappingLinkerComponent.selectedOrderItemsToLink
    isProcessingLink,         \* MappingLinkerComponent.isProcessingLink
    mappings,                 \* StoreService.mappingsSignal
    mockMappings,             \* ApiService.mockMappings
    targetBydSeries,          \* ServiceOrdersComponent.targetBydSeries
    searchTerm,               \* ServiceOrdersComponent.searchTerm
    aiAnalysis,               \* ServiceOrdersComponent.aiAnalysis
    isAiAnalyzing,            \* ServiceOrdersComponent.isAiAnalyzing
    isUploading,              \* MappingLinkerComponent.isUploading
    reading,                  \* sheets handed to a FileReader whose onload has not fired
    previewHeaders,           \* MappingLinkerComponent.previewHeaders
    previewData,              \* MappingLinkerComponent.previewData
    previewMappings,          \* MappingLinkerComponent.previewMappings
    showPreviewModal,         \* MappingLinkerComponent.showPreviewModal
    insertionData,            \* MappingLinkerComponent.insertionData
    showInsertionModal,       \* MappingLinkerComponent.showInsertionModal
    transmitted               \* history: order numbers whose transmission was answered true

ruleVars == <<rules, classificationRules, nextUuid, simulatorCode, simulatorDesc, lastCall>>

apiVars == <<useMockData, selectedDealerCode, mockOrders>>

batchVars == <<selectedBatchModelGroup, selectedBatchItems, selectedBatchTargetCode,
               isBatchProcessing>>

listVars == <<selectedOrder, showTransmitModal, transmissionPayload, itemToLink,
              selectedCandidate>>

orderVars == <<apiVars, rawOrders, isLoading, batchVars, listVars, inflight,
               notification, lastEvent>>

uploadVars == <<isUploading, reading, previewHeaders, previewData, previewMappings,
                showPreviewModal, insertionData, showInsertionModal>>

linkerVars == <<showLinkToOrderModal, selectedMappingForLink, pendingOrderItems,
                selectedOrderItemsToLink, isProcessingLink, uploadVars>>

orderVarsButEvent == <<apiVars, rawOrders, isLoading, batchVars, listVars, inflight,
                       notification>>

catalogVars == <<mappings, mockMappings, targetBydSeries, searchTerm, aiAnalysis,
                 isAiAnalyzing>>

vars == <<ruleVars, orderVars, linkerVars, catalogVars, transmitted>>

----------------------------------------------------------------------------
(* Bounds of the model *)

MaxUuids == 2          \* randomUUID() calls explored
MaxInFlight == 1       \* subscriptions awaiting their response at once
MaxOrders == 3         \* orders in a list answered by the order endpoint
MaxListLen == 2        \* length of the order lists the grouping pass is run on
MaxReads == 2          \* sheets being read by a FileReader at once
MaxFetches == 2        \* fetchOrders subscriptions awaiting their response at once

----------------------------------------------------------------------------
(* Text: JavaScript string operations on sequences of characters *)

LowerChars == <<"a","b","c","d","e","f","g","h","i","j","k","l","m",
                "n","o","p","q","r","s","t","u","v","w","x","y","z">>
UpperChars == <<"A","B","C","D","E","F","G","H","I","J","K","L","M",
                "N","O","P","Q","R","S","T","U","V","W","X","Y","Z">>

UpperChar(c) ==
    IF \E i \in DOMAIN LowerChars : LowerChars[i] = c
    THEN UpperChars[CHOOSE i \in DOMAIN LowerChars : LowerChars[i] = c]
    ELSE c

LowerChar(c) ==
    IF \E i \in DOMAIN UpperChars : UpperChars[i] = c
    THEN LowerChars[CHOOSE i \in DOMAIN UpperChars : UpperChars[i] = c]
    ELSE c

toUpperCase(s) == [i \in DOMAIN s |-> UpperChar(s[i])]

toLowerCase(s) == [i \in DOMAIN s |-> LowerChar(s[i])]

IsSpace(c) == c \in {" ", "\t"}

RECURSIVE trimStart(_)
trimStart(s) ==
    IF s # <<>> /\ IsSpace(Head(s)) THEN trimStart(Tail(s)) ELSE s

RECURSIVE trimEnd(_)
trimEnd(s) ==
    IF s # <<>> /\ IsSpace(s[Len(s)]) THEN trimEnd(SubSeq(s, 1, Len(s) - 1)) ELSE s

trim(s) == trimEnd(trimStart(s))

\* String.prototype.includes
includes(s, sub) ==
    \E k \in 0..(Len(s) - Len(sub)) : SubSeq(s, k + 1, k + Len(sub)) = sub

startsWith(s, sub) ==
    Len(sub) <= Len(s) /\ SubSeq(s, 1, Len(sub)) = sub

\* String.prototype.split(' '): consecutive separators yield empty pieces
RECURSIVE splitFrom(_, _, _)
splitFrom(s, sep, cur) ==
    IF s = <<>> THEN <<cur>>
    ELSE IF Head(s) = sep THEN <<cur>> \o splitFrom(Tail(s), sep, <<>>)
    ELSE splitFrom(Tail(s), sep, Append(cur, Head(s)))

split(s, sep) == splitFrom(s, sep, <<>>)

----------------------------------------------------------------------------
(* Literals of the source *)

MO006    == <<"M","O","0","0","6">>
MO_GEN   == <<"M","O","-","G","E","N">>
ZLAB     == <<"Z","L","A","B">>
SERVICIO == <<"S","E","R","V","I","C","I","O">>
FIL_ACE  == <<"F","I","L","-","A","C","E">>
IPC_CARD == <<"1","5","4","0","7","1","9","9","-","0","0">>

ACEITE      == <<"A","C","E","I","T","E">>
BALATAS     == <<"B","A","L","A","T","A","S">>
ALINEACION  == <<"A","L","I","N","E","A","C","I","O","N">>
PLUMILLAS   == <<"P","L","U","M","I","L","L","A","S">>
DIAGNOSTICO == <<"D","I","A","G","N","O","S","T","I","C","O">>
BATERIA     == <<"B","A","T","E","R","I","A">>

REVISION_DE_FRENOS_DELANTEROS ==
    <<"R","E","V","I","S","I","O","N"," ","D","E"," ","F","R","E","N","O","S"," ","D","E","L","A","N","T","E","R","O","S">>

DefaultRules ==
    << [id |-> 0, isActive |-> TRUE,
        placeholderCodes |-> <<MO006, MO_GEN, ZLAB, SERVICIO>>] >>

DefaultClassificationRules ==
    << [id |-> 1, keyword |-> ACEITE,      category |-> "Mantenimiento"],
       [id |-> 2, keyword |-> BALATAS,     category |-> "Frenos"],
       [id |-> 3, keyword |-> ALINEACION,  category |-> "Suspension"],
       [id |-> 4, keyword |-> PLUMILLAS,   category |-> "Carroceria"],
       [id |-> 5, keyword |-> DIAGNOSTICO, category |-> "Diagnostico"],
       [id |-> 6, keyword |-> BATERIA,     category |-> "Electrico"] >>

FirstUuid == 10

----------------------------------------------------------------------------
(* Inputs the operations are exercised with *)

\* codes queried against the active profile
CodeInputs ==
    { MO006,
      <<" ","M","o","0","0","6"," ">>,
      <<"m","o","0","0","6">>,
      ZLAB,
      FIL_ACE,
      <<>> }

\* codes typed into the simulator
SimulatorCodeInputs == { <<" ","M","o","0","0","6"," ">>, FIL_ACE }

\* placeholder lists a profile can be saved with
PlaceholderInputs ==
    { <<>>,
      <<<<" ","m","o","0","0","6"," ">>, ZLAB>> }

\* rule ids passed to setActiveRule / updateRule / deleteRule
RuleIdInputs == {0} \cup (FirstUuid..(FirstUuid + MaxUuids))

\* rule ids passed to deleteClassificationRule
ClassIdInputs == {1, 6} \cup (FirstUuid..(FirstUuid + MaxUuids))

\* Partial<BusinessRule> objects passed to updateRule
ChangeInputs ==
    { [isActive |-> b] : b \in BOOLEAN }
      \cup { [placeholderCodes |-> p] : p \in PlaceholderInputs }

\* keyword / category pairs typed into the classification form
KeywordInputs ==
    { [keyword |-> <<"A","C","E">>, category |-> "Generico"],
      [keyword |-> <<"a","c","e","i","t","e"," ","m","o","t","o","r">>, category |-> "Motor"],
      [keyword |-> <<>>, category |-> "Todo"] }

DescInputs ==
    { <<"c","a","m","b","i","o"," ","d","e"," ","A","c","e","i","t","e"," ","m","o","t","o","r">>,
      <<"B","A","L","A","T","A","S"," ","Y"," ","A","C","E","I","T","E">>,
      <<"B","A","T","E","R","I","A">>,
      <<"L","A","V","A","D","O">>,
      <<>> }

----------------------------------------------------------------------------
(* BusinessRulesService *)

NoCall == [op |-> "none", id |-> 0]

SeqFilter(s, Test(_)) ==
    LET F[i \in 0..Len(s)] ==
        IF i = 0 THEN <<>>
        ELSE IF Test(s[i]) THEN Append(F[i - 1], s[i]) ELSE F[i - 1]
    IN F[Len(s)]

\* Array.prototype.find: index of the first element passing the test, 0 if none
FindIndex(s, Test(_)) ==
    IF \E i \in DOMAIN s : Test(s[i])
    THEN CHOOSE i \in DOMAIN s : Test(s[i]) /\ \A j \in 1..(i - 1) : ~Test(s[j])
    ELSE 0

\* activeRule = rulesSignal().find(r => r.isActive) || rulesSignal()[0]
activeRuleOf(list) ==
    LET isAct(r) == r.isActive
        k == FindIndex(list, isAct)
    IN IF k # 0 THEN list[k] ELSE list[1]

activeRule == activeRuleOf(rules)

\* { ...r, ...changes }
Merge(r, changes) ==
    [f \in DOMAIN r |-> IF f \in DOMAIN changes THEN changes[f] ELSE r[f]]

\* activates the rule without deactivating the others
setActiveRuleList_keepOthers(list, id) ==
    [i \in DOMAIN list |->
        [list[i] EXCEPT !.isActive = (list[i].id = id) \/ list[i].isActive]]

setActiveRuleList(list, id) ==
    [i \in DOMAIN list |-> [list[i] EXCEPT !.isActive = (list[i].id = id)]]

setActiveRule(id) ==
    /\ rules' = setActiveRuleList(rules, id)
    /\ lastCall' = [op |-> "setActiveRule", id |-> id]
    /\ UNCHANGED <<classificationRules, nextUuid, simulatorCode, simulatorDesc>>
    /\ UNCHANGED <<orderVars, linkerVars, catalogVars>>
    /\ UNCHANGED transmitted

addRule(placeholders) ==
    /\ nextUuid < FirstUuid + MaxUuids
    /\ rules' = Append(rules, [id |-> nextUuid, isActive |-> FALSE,
                               placeholderCodes |-> placeholders])
    /\ nextUuid' = nextUuid + 1
    /\ lastCall' = NoCall
    /\ UNCHANGED <<classificationRules, simulatorCode, simulatorDesc>>
    /\ UNCHANGED <<orderVars, linkerVars, catalogVars>>
    /\ UNCHANGED transmitted

updateRule(id, changes) ==
    /\ rules' = [i \in DOMAIN rules |->
                    IF rules[i].id = id THEN Merge(rules[i], changes) ELSE rules[i]]
    /\ lastCall' = NoCall
    /\ UNCHANGED <<classificationRules, nextUuid, simulatorCode, simulatorDesc>>
    /\ UNCHANGED <<orderVars, linkerVars, catalogVars>>
    /\ UNCHANGED transmitted

\* filters without looking at the length of the list first
deleteRuleList_unguarded(list, id) ==
    LET keep(r) == r.id # id
        rest == SeqFilter(list, keep)
    IN IF \E i \in DOMAIN rest : rest[i].isActive THEN rest
       ELSE IF Len(rest) > 0 THEN [rest EXCEPT ![1].isActive = TRUE]
       ELSE rest

deleteRuleList(list, id) ==
    IF Len(list) <= 1 THEN list
    ELSE LET keep(r) == r.id # id
             rest == SeqFilter(list, keep)
         IN IF \E i \in DOMAIN rest : rest[i].isActive THEN rest
            ELSE IF Len(rest) > 0 THEN [rest EXCEPT ![1].isActive = TRUE]
            ELSE rest

deleteRule(id) ==
    /\ rules' = deleteRuleList(rules, id)
    /\ lastCall' = [op |-> "deleteRule", id |-> id]
    /\ UNCHANGED <<classificationRules, nextUuid, simulatorCode, simulatorDesc>>
    /\ UNCHANGED <<orderVars, linkerVars, catalogVars>>
    /\ UNCHANGED transmitted

\* puts the new rule after the existing ones
addClassificationRule_appended(rule) ==
    /\ nextUuid < FirstUuid + MaxUuids
    /\ classificationRules' =
          classificationRules
             \o <<[id |-> nextUuid, keyword |-> rule.keyword, category |-> rule.category]>>
    /\ nextUuid' = nextUuid + 1
    /\ lastCall' = NoCall
    /\ UNCHANGED <<rules, simulatorCode, simulatorDesc>>
    /\ UNCHANGED <<orderVars, linkerVars, catalogVars>>
    /\ UNCHANGED transmitted

addClassificationRule(rule) ==
    /\ nextUuid < FirstUuid + MaxUuids
    /\ classificationRules' =
          <<[id |-> nextUuid, keyword |-> rule.keyword, category |-> rule.category]>>
             \o classificationRules
    /\ nextUuid' = nextUuid + 1
    /\ lastCall' = NoCall
    /\ UNCHANGED <<rules, simulatorCode, simulatorDesc>>
    /\ UNCHANGED <<orderVars, linkerVars, catalogVars>>
    /\ UNCHANGED transmitted

deleteClassificationRule(id) ==
    /\ LET keep(r) == r.id # id
       IN classificationRules' = SeqFilter(classificationRules, keep)
    /\ lastCall' = NoCall
    /\ UNCHANGED <<rules, nextUuid, simulatorCode, simulatorDesc>>
    /\ UNCHANGED <<orderVars, linkerVars, catalogVars>>
    /\ UNCHANGED transmitted

\* compares after trim only, letter case kept
codeMatches_caseKept(p, code) == trim(p) = trim(code)

codeMatches(p, code) == toUpperCase(trim(p)) = toUpperCase(trim(code))

isPlaceholderCodeFor(active, code) ==
    \E i \in DOMAIN active.placeholderCodes : codeMatches(active.placeholderCodes[i], code)

isPlaceholderCode(code) == isPlaceholderCodeFor(activeRule, code)

\* compares the raw strings, without trim / toUpperCase
isItemRelevantFor_raw(active, code) ==
    IF Len(active.placeholderCodes) = 0 THEN TRUE
    ELSE \E i \in DOMAIN active.placeholderCodes : active.placeholderCodes[i] = code

isItemRelevantFor(active, code) ==
    IF Len(active.placeholderCodes) = 0 THEN TRUE
    ELSE \E i \in DOMAIN active.placeholderCodes :
            codeMatches(active.placeholderCodes[i], code)

isItemRelevant(code) == isItemRelevantFor(activeRule, code)

NoClassification == "null"

\* prefers the matching rule with the longest keyword (best match, not first match)
classifyItemWith_longest(list, description) ==
    LET descUpper == toUpperCase(description)
        hits == {i \in DOMAIN list : includes(descUpper, toUpperCase(list[i].keyword))}
    IN IF hits = {} THEN NoClassification
       ELSE list[CHOOSE i \in hits :
                    \A j \in hits : Len(list[j].keyword) < Len(list[i].keyword)
                                     \/ (Len(list[j].keyword) = Len(list[i].keyword) /\ i <= j)
                ].category

\* rules.find(r => descUpper.includes(r.keyword.toUpperCase()))
classifyItemWith(list, description) ==
    LET descUpper == toUpperCase(description)
        hit(r) == includes(descUpper, toUpperCase(r.keyword))
        k == FindIndex(list, hit)
    IN IF k # 0 THEN list[k].category ELSE NoClassification

classifyItem(description) == classifyItemWith(classificationRules, description)

\* BusinessLogicComponent.simulationResult (computed signal)
simulationResult ==
    [isAdmitted |-> isItemRelevant(toUpperCase(trim(simulatorCode))),
     classification |-> classifyItem(trim(simulatorDesc))]

setSimulatorCode(c) ==
    /\ simulatorCode' = c
    /\ lastCall' = NoCall
    /\ UNCHANGED <<rules, classificationRules, nextUuid, simulatorDesc>>
    /\ UNCHANGED <<orderVars, linkerVars, catalogVars>>
    /\ UNCHANGED transmitted

setSimulatorDesc(d) ==
    /\ simulatorDesc' = d
    /\ lastCall' = NoCall
    /\ UNCHANGED <<rules, classificationRules, nextUuid, simulatorCode>>
    /\ UNCHANGED <<orderVars, linkerVars, catalogVars>>
    /\ UNCHANGED transmitted

----------------------------------------------------------------------------
(* Service orders: data of ApiService *)

GENERICO == <<"G","E","N","E","R","I","C","O">>
N_A      == <<"N","/","A">>

XCL00435 == <<"X","C","L","0","0","4","3","5">>
XCL00432 == <<"X","C","L","0","0","4","3","2">>
XCL00430 == <<"X","C","L","0","0","4","3","0">>
SOPL25BY == <<"S","O","P","L","2","5","B","Y">>
Y2025    == <<"2","0","2","5">>

SongPlusBC    == <<"S","O","N","G"," ","P","L","U","S"," ","2","0","2","5"," ","B","C"," ","D","M","-","I"," ","A","T"," ","D","E","L","A","N"," ","B","L","A","C","K">>
SongPlusBLRed == <<"S","O","N","G"," ","P","L","U","S"," ","2","0","2","5"," ","B","L"," ","D","M","-","I"," ","A","T"," ","E","M","P","E","R","O","R"," ","R","E","D">>
SongPlusBLGrey == <<"S","O","N","G"," ","P","L","U","S"," ","2","0","2","5"," ","B","L"," ","D","M","-","I"," ","A","T"," ","G","R","E","Y">>

NewItem(code, description) ==
    [code |-> code, description |-> description, isLinked |-> FALSE,
     linkedBydCode |-> "", linkedBydDescription |-> ""]

InitialMockOrders ==
    << [id |-> "435", orderNumber |-> XCL00435, vin |-> "LGXC74C48S0147557",
        modelCodeRaw |-> SOPL25BY, modelDescRaw |-> SongPlusBC, year |-> Y2025,
        status |-> "Pending",
        items |-> << NewItem(IPC_CARD, "IPC MEMORY CARD"),
                     NewItem(MO006, "CONFIGURACION DE TARJETAS NFC") >>],
       [id |-> "432", orderNumber |-> XCL00432, vin |-> "LGXC74C42S0023462",
        modelCodeRaw |-> SOPL25BY, modelDescRaw |-> SongPlusBLRed, year |-> Y2025,
        status |-> "In Process",
        items |-> << NewItem(MO006, "REVISION DE RUIDO EN SUSPENSION") >>],
       [id |-> "430", orderNumber |-> XCL00430, vin |-> "LGXC74C42S0029988",
        modelCodeRaw |-> SOPL25BY, modelDescRaw |-> SongPlusBLGrey, year |-> Y2025,
        status |-> "In Process",
        items |-> << NewItem(MO006, "SERVICIO DE MANTENIMIENTO 10,000 KMS"),
                     NewItem(FIL_ACE, "FILTRO DE ACEITE") >>] >>

\* catalog entries offered as link targets (ApiService.mockMappings)
Mappings ==
    { [bydCode |-> "WSA3HAC02101GH00", bydType |-> "Labor",
       description |-> "Mantenimiento 10,000 KM Song Plus"],
      [bydCode |-> "WSA3HRF00501GH00", bydType |-> "Repair",
       description |-> "Reemplazo Balatas Delanteras"] }

DealerInputs == {"MEX022429"}

\* the characters of the texts held by catalog entries and keyword hints
CharTable ==
    ("" :> <<>>)
    @@ (" WSA-900 " :> <<" ","W","S","A","-","9","0","0"," ">>)
    @@ ("WSA-900" :> <<"W","S","A","-","9","0","0">>)
    @@ ("WSA-901" :> <<"W","S","A","-","9","0","1">>)
    @@ ("Chassis repair" :> <<"C","h","a","s","s","i","s"," ","r","e","p","a","i","r">>)
    @@ (" SONG PLUS DMI" :> <<" ","S","O","N","G"," ","P","L","U","S"," ","D","M","I">>)
    @@ ("Yes" :> <<"Y","e","s">>)
    @@ (" Brake " :> <<" ","B","r","a","k","e"," ">>)
    @@ ("Actualización Software OTA Manual" :> <<"A","c","t","u","a","l","i","z","a","c","i","ó","n"," ","S","o","f","t","w","a","r","e"," ","O","T","A"," ","M","a","n","u","a","l">>)
    @@ ("Alineación y Balanceo 4 Ruedas" :> <<"A","l","i","n","e","a","c","i","ó","n"," ","y"," ","B","a","l","a","n","c","e","o"," ","4"," ","R","u","e","d","a","s">>)
    @@ ("BRK" :> <<"B","R","K">>)
    @@ ("BRK-01" :> <<"B","R","K","-","0","1">>)
    @@ ("BRK-02" :> <<"B","R","K","-","0","2">>)
    @@ ("BRK-04" :> <<"B","R","K","-","0","4">>)
    @@ ("BRK-05" :> <<"B","R","K","-","0","5">>)
    @@ ("BRK-07" :> <<"B","R","K","-","0","7">>)
    @@ ("BRK-08" :> <<"B","R","K","-","0","8">>)
    @@ ("BRK-10" :> <<"B","R","K","-","1","0">>)
    @@ ("BRK-11" :> <<"B","R","K","-","1","1">>)
    @@ ("BRK-13" :> <<"B","R","K","-","1","3">>)
    @@ ("BRK-14" :> <<"B","R","K","-","1","4">>)
    @@ ("BRK-16" :> <<"B","R","K","-","1","6">>)
    @@ ("BRK-17" :> <<"B","R","K","-","1","7">>)
    @@ ("BRK-19" :> <<"B","R","K","-","1","9">>)
    @@ ("BRK-20" :> <<"B","R","K","-","2","0">>)
    @@ ("BRK-22" :> <<"B","R","K","-","2","2">>)
    @@ ("BRK-23" :> <<"B","R","K","-","2","3">>)
    @@ ("BRK-25" :> <<"B","R","K","-","2","5">>)
    @@ ("BRK-26" :> <<"B","R","K","-","2","6">>)
    @@ ("BRK-28" :> <<"B","R","K","-","2","8">>)
    @@ ("BRK-29" :> <<"B","R","K","-","2","9">>)
    @@ ("Brake" :> <<"B","r","a","k","e">>)
    @@ ("Brake Pad-Front" :> <<"B","r","a","k","e"," ","P","a","d","-","F","r","o","n","t">>)
    @@ ("Cambio Plumillas Limpiaparabrisas" :> <<"C","a","m","b","i","o"," ","P","l","u","m","i","l","l","a","s"," ","L","i","m","p","i","a","p","a","r","a","b","r","i","s","a","s">>)
    @@ ("DOL-ELEC-CHK" :> <<"D","O","L","-","E","L","E","C","-","C","H","K">>)
    @@ ("DOL-MAINT-20K" :> <<"D","O","L","-","M","A","I","N","T","-","2","0","K">>)
    @@ ("DOL-MINI-WIPER" :> <<"D","O","L","-","M","I","N","I","-","W","I","P","E","R">>)
    @@ ("DOLPHIN" :> <<"D","O","L","P","H","I","N">>)
    @@ ("DOLPHIN MINI" :> <<"D","O","L","P","H","I","N"," ","M","I","N","I">>)
    @@ ("Diagnóstico Sistema Híbrido" :> <<"D","i","a","g","n","ó","s","t","i","c","o"," ","S","i","s","t","e","m","a"," ","H","í","b","r","i","d","o">>)
    @@ ("Frontal brake-pad kit" :> <<"F","r","o","n","t","a","l"," ","b","r","a","k","e","-","p","a","d"," ","k","i","t">>)
    @@ ("HAN EV" :> <<"H","A","N"," ","E","V">>)
    @@ ("HAN-BRK-RR" :> <<"H","A","N","-","B","R","K","-","R","R">>)
    @@ ("Mantenimiento 10,000 KM Song Plus" :> <<"M","a","n","t","e","n","i","m","i","e","n","t","o"," ","1","0",",","0","0","0"," ","K","M"," ","S","o","n","g"," ","P","l","u","s">>)
    @@ ("Mantenimiento A/C Tang" :> <<"M","a","n","t","e","n","i","m","i","e","n","t","o"," ","A","/","C"," ","T","a","n","g">>)
    @@ ("Oil filter" :> <<"O","i","l"," ","f","i","l","t","e","r">>)
    @@ ("Pad" :> <<"P","a","d">>)
    @@ ("Rear brakes" :> <<"R","e","a","r"," ","b","r","a","k","e","s">>)
    @@ ("Reemplazo Balatas Delanteras" :> <<"R","e","e","m","p","l","a","z","o"," ","B","a","l","a","t","a","s"," ","D","e","l","a","n","t","e","r","a","s">>)
    @@ ("Reemplazo Pastillas Traseras Han" :> <<"R","e","e","m","p","l","a","z","o"," ","P","a","s","t","i","l","l","a","s"," ","T","r","a","s","e","r","a","s"," ","H","a","n">>)
    @@ ("Revisión Sistema Alto Voltaje" :> <<"R","e","v","i","s","i","ó","n"," ","S","i","s","t","e","m","a"," ","A","l","t","o"," ","V","o","l","t","a","j","e">>)
    @@ ("SEAL" :> <<"S","E","A","L">>)
    @@ ("SEAL-ALIGN-01" :> <<"S","E","A","L","-","A","L","I","G","N","-","0","1">>)
    @@ ("SEAL-UPD-SOFT" :> <<"S","E","A","L","-","U","P","D","-","S","O","F","T">>)
    @@ ("SHARK" :> <<"S","H","A","R","K">>)
    @@ ("SHARK_LAB_01" :> <<"S","H","A","R","K","_","L","A","B","_","0","1">>)
    @@ ("SONG PLUS DMI" :> <<"S","O","N","G"," ","P","L","U","S"," ","D","M","I">>)
    @@ ("Servicio 20,000 KM Dolphin" :> <<"S","e","r","v","i","c","i","o"," ","2","0",",","0","0","0"," ","K","M"," ","D","o","l","p","h","i","n">>)
    @@ ("Shark Battery Replace" :> <<"S","h","a","r","k"," ","B","a","t","t","e","r","y"," ","R","e","p","l","a","c","e">>)
    @@ ("Song Plus DMI" :> <<"S","o","n","g"," ","P","l","u","s"," ","D","M","I">>)
    @@ ("TANG" :> <<"T","A","N","G">>)
    @@ ("TANG-AC-SERV" :> <<"T","A","N","G","-","A","C","-","S","E","R","V">>)
    @@ ("WSA-03" :> <<"W","S","A","-","0","3">>)
    @@ ("WSA-06" :> <<"W","S","A","-","0","6">>)
    @@ ("WSA-09" :> <<"W","S","A","-","0","9">>)
    @@ ("WSA-12" :> <<"W","S","A","-","1","2">>)
    @@ ("WSA-15" :> <<"W","S","A","-","1","5">>)
    @@ ("WSA-18" :> <<"W","S","A","-","1","8">>)
    @@ ("WSA-21" :> <<"W","S","A","-","2","1">>)
    @@ ("WSA-24" :> <<"W","S","A","-","2","4">>)
    @@ ("WSA-27" :> <<"W","S","A","-","2","7">>)
    @@ ("WSA-30" :> <<"W","S","A","-","3","0">>)
    @@ ("WSA3-BRK-900" :> <<"W","S","A","3","-","B","R","K","-","9","0","0">>)
    @@ ("WSA3-DIAG-001" :> <<"W","S","A","3","-","D","I","A","G","-","0","0","1">>)
    @@ ("WSA3HAC02101GH00" :> <<"W","S","A","3","H","A","C","0","2","1","0","1","G","H","0","0">>)
    @@ ("WSA3HRF00501GH00" :> <<"W","S","A","3","H","R","F","0","0","5","0","1","G","H","0","0">>)
    @@ ("Wiper blades" :> <<"W","i","p","e","r"," ","b","l","a","d","e","s">>)
    @@ ("brake" :> <<"b","r","a","k","e">>)
    @@ ("brake pad" :> <<"b","r","a","k","e"," ","p","a","d">>)
    @@ ("brake_fluid,DOT4." :> <<"b","r","a","k","e","_","f","l","u","i","d",",","D","O","T","4",".">>)
    @@ ("km" :> <<"k","m">>)

Chars(text) == CharTable[text]

\* ApiService.mockMappings as constructed (category and hours are not used here)
InitialMockMappings ==
    << [id |-> "1", bydCode |-> "WSA3HAC02101GH00", bydType |-> "Labor",
        daltonCode |-> "19897094-00", status |-> "Linked",
        description |-> "Mantenimiento 10,000 KM Song Plus",
        vehicleSeries |-> "SONG PLUS DMI", vehicleModel |-> "SONG PLUS DMI"],
       [id |-> "2", bydCode |-> "WSA3HRF00501GH00", bydType |-> "Repair",
        daltonCode |-> "10500005-00", status |-> "Linked",
        description |-> "Reemplazo Balatas Delanteras",
        vehicleSeries |-> "SONG PLUS DMI", vehicleModel |-> "SONG PLUS DMI"],
       [id |-> "3", bydCode |-> "WSA3-DIAG-001", bydType |-> "Labor",
        daltonCode |-> "DIAG-01", status |-> "Linked",
        description |-> "Diagnóstico Sistema Híbrido",
        vehicleSeries |-> "SONG PLUS DMI", vehicleModel |-> "SONG PLUS DMI"],
       [id |-> "4", bydCode |-> "DOL-MAINT-20K", bydType |-> "Labor",
        daltonCode |-> "M-20K", status |-> "Linked",
        description |-> "Servicio 20,000 KM Dolphin", vehicleSeries |-> "DOLPHIN",
        vehicleModel |-> "DOLPHIN"],
       [id |-> "5", bydCode |-> "DOL-MINI-WIPER", bydType |-> "Labor",
        daltonCode |-> "WIP-01", status |-> "Linked",
        description |-> "Cambio Plumillas Limpiaparabrisas",
        vehicleSeries |-> "DOLPHIN MINI", vehicleModel |-> "DOLPHIN MINI"],
       [id |-> "6", bydCode |-> "DOL-ELEC-CHK", bydType |-> "Labor",
        daltonCode |-> "E-CHK", status |-> "Linked",
        description |-> "Revisión Sistema Alto Voltaje",
        vehicleSeries |-> "DOLPHIN", vehicleModel |-> "DOLPHIN"],
       [id |-> "7", bydCode |-> "SEAL-ALIGN-01", bydType |-> "Labor",
        daltonCode |-> "ALI-01", status |-> "Linked",
        description |-> "Alineación y Balanceo 4 Ruedas",
        vehicleSeries |-> "SEAL", vehicleModel |-> "SEAL"],
       [id |-> "8", bydCode |-> "SEAL-UPD-SOFT", bydType |-> "Labor",
        daltonCode |-> "SW-UPD", status |-> "Linked",
        description |-> "Actualización Software OTA Manual",
        vehicleSeries |-> "SEAL", vehicleModel |-> "SEAL"],
       [id |-> "9", bydCode |-> "SHARK_LAB_01", bydType |-> "Labor",
        daltonCode |-> "S_LAB_01", status |-> "Pending",
        description |-> "Shark Battery Replace", vehicleSeries |-> "SHARK",
        vehicleModel |-> "SHARK"],
       [id |-> "10", bydCode |-> "HAN-BRK-RR", bydType |-> "Labor",
        daltonCode |-> "BRK-RR", status |-> "Linked",
        description |-> "Reemplazo Pastillas Traseras Han",
        vehicleSeries |-> "HAN EV", vehicleModel |-> "HAN EV"],
       [id |-> "11", bydCode |-> "TANG-AC-SERV", bydType |-> "Labor",
        daltonCode |-> "AC-01", status |-> "Linked",
        description |-> "Mantenimiento A/C Tang", vehicleSeries |-> "TANG",
        vehicleModel |-> "TANG"] >>

\* a catalog as the live endpoint can send it: one series with variants of a few
\* operations, entries of another series, entries whose series is given by
\* vehicleModel only, and entries without a description
LiveCatalog ==
    << [id |-> "L1", bydCode |-> "BRK-01", bydType |-> "Labor",
        daltonCode |-> "MO006", status |-> "Linked",
        description |-> "Brake Pad-Front", vehicleSeries |-> "SONG PLUS DMI",
        vehicleModel |-> "SONG PLUS DMI"],
       [id |-> "L2", bydCode |-> "BRK-02", bydType |-> "Labor",
        daltonCode |-> "MO006", status |-> "Linked",
        description |-> "Rear brakes", vehicleSeries |-> "SONG PLUS DMI",
        vehicleModel |-> "SONG PLUS DMI"],
       [id |-> "L3", bydCode |-> "WSA-03", bydType |-> "Labor",
        daltonCode |-> "MO006", status |-> "Linked",
        description |-> "brake_fluid,DOT4.", vehicleSeries |-> "SONG PLUS DMI",
        vehicleModel |-> "SONG PLUS DMI"],
       [id |-> "L4", bydCode |-> "BRK-04", bydType |-> "Labor",
        daltonCode |-> "MO006", status |-> "Linked", description |-> "Oil filter",
        vehicleSeries |-> "SONG PLUS DMI", vehicleModel |-> "SONG PLUS DMI"],
       [id |-> "L5", bydCode |-> "BRK-05", bydType |-> "Labor",
        daltonCode |-> "MO006", status |-> "Linked", description |-> "",
        vehicleSeries |-> "SEAL", vehicleModel |-> "SEAL"],
       [id |-> "L6", bydCode |-> "WSA-06", bydType |-> "Labor",
        daltonCode |-> "MO006", status |-> "Linked",
        description |-> "Wiper blades", vehicleSeries |-> "SONG PLUS DMI",
        vehicleModel |-> "SONG PLUS DMI"],
       [id |-> "L7", bydCode |-> "BRK-07", bydType |-> "Labor",
        daltonCode |-> "MO006", status |-> "Linked",
        description |-> "Frontal brake-pad kit",
        vehicleSeries |-> "SONG PLUS DMI", vehicleModel |-> "SONG PLUS DMI"],
       [id |-> "L8", bydCode |-> "BRK-08", bydType |-> "Labor",
        daltonCode |-> "MO006", status |-> "Linked",
        description |-> "Brake Pad-Front", vehicleSeries |-> "",
        vehicleModel |-> "Song Plus DMI"],
       [id |-> "L9", bydCode |-> "WSA-09", bydType |-> "Labor",
        daltonCode |-> "MO006", status |-> "Linked",
        description |-> "Rear brakes", vehicleSeries |-> "SONG PLUS DMI",
        vehicleModel |-> "SONG PLUS DMI"],
       [id |-> "L10", bydCode |-> "BRK-10", bydType |-> "Labor",
        daltonCode |-> "MO006", status |-> "Linked",
        description |-> "brake_fluid,DOT4.", vehicleSeries |-> "SONG PLUS DMI",
        vehicleModel |-> "SONG PLUS DMI"],
       [id |-> "L11", bydCode |-> "BRK-11", bydType |-> "Labor",
        daltonCode |-> "MO006", status |-> "Linked", description |-> "Oil filter",
        vehicleSeries |-> "SONG PLUS DMI", vehicleModel |-> "SONG PLUS DMI"],
       [id |-> "L12", bydCode |-> "WSA-12", bydType |-> "Labor",
        daltonCode |-> "MO006", status |-> "Linked", description |-> "",
        vehicleSeries |-> "SONG PLUS DMI", vehicleModel |-> "SONG PLUS DMI"],
       [id |-> "L13", bydCode |-> "BRK-13", bydType |-> "Labor",
        daltonCode |-> "MO006", status |-> "Linked",
        description |-> "Wiper blades", vehicleSeries |-> "SEAL",
        vehicleModel |-> "SEAL"],
       [id |-> "L14", bydCode |-> "BRK-14", bydType |-> "Labor",
        daltonCode |-> "MO006", status |-> "Linked",
        description |-> "Frontal brake-pad kit",
        vehicleSeries |-> "SONG PLUS DMI", vehicleModel |-> "SONG PLUS DMI"],
       [id |-> "L15", bydCode |-> "WSA-15", bydType |-> "Labor",
        daltonCode |-> "MO006", status |-> "Linked",
        description |-> "Brake Pad-Front", vehicleSeries |-> "SONG PLUS DMI",
        vehicleModel |-> "SONG PLUS DMI"],
       [id |-> "L16", bydCode |-> "BRK-16", bydType |-> "Labor",
        daltonCode |-> "MO006", status |-> "Linked",
        description |-> "Rear brakes", vehicleSeries |-> "",
        vehicleModel |-> "Song Plus DMI"],
       [id |-> "L17", bydCode |-> "BRK-17", bydType |-> "Labor",
        daltonCode |-> "MO006", status |-> "Linked",
        description |-> "brake_fluid,DOT4.", vehicleSeries |-> "SONG PLUS DMI",
        vehicleModel |-> "SONG PLUS DMI"],
       [id |-> "L18", bydCode |-> "WSA-18", bydType |-> "Labor",
        daltonCode |-> "MO006", status |-> "Linked", description |-> "Oil filter",
        vehicleSeries |-> "SONG PLUS DMI", vehicleModel |-> "SONG PLUS DMI"],
       [id |-> "L19", bydCode |-> "BRK-19", bydType |-> "Labor",
        daltonCode |-> "MO006", status |-> "Linked", description |-> "",
        vehicleSeries |-> "SONG PLUS DMI", vehicleModel |-> "SONG PLUS DMI"],
       [id |-> "L20", bydCode |-> "BRK-20", bydType |-> "Labor",
        daltonCode |-> "MO006", status |-> "Linked",
        description |-> "Wiper blades", vehicleSeries |-> "SONG PLUS DMI",
        vehicleModel |-> "SONG PLUS DMI"],
       [id |-> "L21", bydCode |-> "WSA-21", bydType |-> "Labor",
        daltonCode |-> "MO006", status |-> "Linked",
        description |-> "Frontal brake-pad kit",
        vehicleSeries |-> "SONG PLUS DMI", vehicleModel |-> "SONG PLUS DMI"],
       [id |-> "L22", bydCode |-> "BRK-22", bydType |-> "Labor",
        daltonCode |-> "MO006", status |-> "Linked",
        description |-> "Brake Pad-Front", vehicleSeries |-> "SONG PLUS DMI",
        vehicleModel |-> "SONG PLUS DMI"],
       [id |-> "L23", bydCode |-> "BRK-23", bydType |-> "Labor",
        daltonCode |-> "MO006", status |-> "Linked",
        description |-> "Rear brakes", vehicleSeries |-> "SONG PLUS DMI",
        vehicleModel |-> "SONG PLUS DMI"],
       [id |-> "L24", bydCode |-> "WSA-24", bydType |-> "Labor",
        daltonCode |-> "MO006", status |-> "Linked",
        description |-> "brake_fluid,DOT4.", vehicleSeries |-> "",
        vehicleModel |-> "Song Plus DMI"],
       [id |-> "L25", bydCode |-> "BRK-25", bydType |-> "Labor",
        daltonCode |-> "MO006", status |-> "Linked", description |-> "Oil filter",
        vehicleSeries |-> "SONG PLUS DMI", vehicleModel |-> "SONG PLUS DMI"],
       [id |-> "L26", bydCode |-> "BRK-26", bydType |-> "Labor",
        daltonCode |-> "MO006", status |-> "Linked", description |-> "",
        vehicleSeries |-> "SONG PLUS DMI", vehicleModel |-> "SONG PLUS DMI"],
       [id |-> "L27", bydCode |-> "WSA-27", bydType |-> "Labor",
        daltonCode |-> "MO006", status |-> "Linked",
        description |-> "Wiper blades", vehicleSeries |-> "SONG PLUS DMI",
        vehicleModel |-> "SONG PLUS DMI"],
       [id |-> "L28", bydCode |-> "BRK-28", bydType |-> "Labor",
        daltonCode |-> "MO006", status |-> "Linked",
        description |-> "Frontal brake-pad kit",
        vehicleSeries |-> "SONG PLUS DMI", vehicleModel |-> "SONG PLUS DMI"],
       [id |-> "L29", bydCode |-> "BRK-29", bydType |-> "Labor",
        daltonCode |-> "MO006", status |-> "Linked",
        description |-> "Brake Pad-Front", vehicleSeries |-> "SONG PLUS DMI",
        vehicleModel |-> "SONG PLUS DMI"],
       [id |-> "L30", bydCode |-> "WSA-30", bydType |-> "Labor",
        daltonCode |-> "MO006", status |-> "Linked",
        description |-> "Rear brakes", vehicleSeries |-> "SONG PLUS DMI",
        vehicleModel |-> "SONG PLUS DMI"] >>

LiveCatalogInputs == {<<>>, LiveCatalog}

\* what GeminiService.translateToKeywords answers
AnalysisInputs ==
    { [translation |-> "", keywords |-> <<>>],
      [translation |-> "", keywords |-> <<"km">>],
      [translation |-> "brake pad", keywords |-> <<" Brake ", "Pad">>],
      [translation |-> "", keywords |-> <<"BRK", "brake">>],
      [translation |-> "", keywords |-> <<"brake", "Brake">>] }

SeriesInputs == {<<>>, Chars("SONG PLUS DMI")}

\* the entry typed into the form of the catalog page
NewMappingInputs ==
    { [bydCode |-> "WSA3-BRK-900", bydType |-> "Repair", daltonCode |-> "MO006",
       description |-> "Brake Pad-Front", vehicleSeries |-> "SONG PLUS DMI",
       vehicleModel |-> "SONG PLUS DMI"] }

----------------------------------------------------------------------------
(* Object references.  getOrders() in mock mode answers [...this.mockOrders]:  *)
(* the order and item objects of the answer are the objects of mockOrders,    *)
(* which linkOrderItem / linkOrderItemsBatch / transmitOrderToPlant mutate in *)
(* place.  An entry [cell |-> ...] is such a shared object; any other entry   *)
(* is an object of the component's own, held by value.                        *)

IsShared(e) == "cell" \in DOMAIN e

\* the item entries of an order entry
ItemEntries(e) ==
    IF IsShared(e)
    THEN [j \in DOMAIN mockOrders[e.cell].items |-> [cell |-> <<e.cell, j>>]]
    ELSE e.items

\* the current value of an item entry
ItemValue(e) == IF IsShared(e) THEN mockOrders[e.cell[1]].items[e.cell[2]] ELSE e

\* the current value of an order entry, its items by value
OrderValue(e) ==
    LET o == IF IsShared(e) THEN mockOrders[e.cell] ELSE e
        entries == ItemEntries(e)
    IN [o EXCEPT !.items = [j \in DOMAIN entries |-> ItemValue(entries[j])]]

\* what rawOrders() reads as
OrdersOf(entries) == [k \in DOMAIN entries |-> OrderValue(entries[k])]

Orders == OrdersOf(rawOrders)

----------------------------------------------------------------------------
(* ServiceOrdersComponent.pendingItemsByModel *)

\* a || b on strings: the empty string is falsy
OrElse(a, b) == IF a # <<>> THEN a ELSE b

\* arr[k] || '' for a 1-based position k of split()'s result
PieceOrEmpty(pieces, k) == IF k <= Len(pieces) THEN pieces[k] ELSE <<>>

modelNameOf(order) ==
    split(OrElse(order.modelDescRaw, OrElse(order.modelCodeRaw, GENERICO)), " ")[1]
        \o <<" ">>
        \o PieceOrEmpty(split(order.modelDescRaw, " "), 2)

yearOf(order) == OrElse(order.year, N_A)

groupIdOf(order) == trim(modelNameOf(order)) \o <<"|">> \o yearOf(order)

IsTerminal(order) == order.status = "Transmitted" \/ order.status = "Completed"

PendingOf_everyItem(orders, active, k) ==
    [i \in DOMAIN orders[k].items |->
        [orderId |-> orders[k].id, orderNumber |-> orders[k].orderNumber,
         vin |-> orders[k].vin, item |-> <<k, i>>]]

\* the items of order k that the inner forEach pushes
PendingOf(orders, active, k) ==
    LET its == orders[k].items
        F[i \in 0..Len(its)] ==
            IF i = 0 THEN <<>>
            ELSE IF ~its[i].isLinked /\ isItemRelevantFor(active, its[i].code)
                 THEN Append(F[i - 1],
                             [orderId |-> orders[k].id,
                              orderNumber |-> orders[k].orderNumber,
                              vin |-> orders[k].vin,
                              item |-> <<k, i>>])
                 ELSE F[i - 1]
    IN F[Len(its)]

\* the Map after the outer forEach has processed orders 1..k, in insertion order
RECURSIVE GroupMap(_, _, _)
GroupMap(orders, active, k) ==
    IF k = 0 THEN <<>>
    ELSE LET prev == GroupMap(orders, active, k - 1)
             o == orders[k]
             gid == groupIdOf(o)
             withKey == IF \E g \in DOMAIN prev : prev[g].groupId = gid THEN prev
                        ELSE Append(prev, [groupId |-> gid,
                                           modelName |-> trim(modelNameOf(o)),
                                           year |-> yearOf(o),
                                           count |-> 0, items |-> <<>>])
             pos == CHOOSE g \in DOMAIN withKey : withKey[g].groupId = gid
             add == PendingOf(orders, active, k)
         IN IF IsTerminal(o) THEN prev
            ELSE [withKey EXCEPT ![pos].items = @ \o add,
                                 ![pos].count = @ + Len(add)]

\* String.prototype.localeCompare, as the order of the characters listed
CollationOrder ==
    <<" ","_","-",",",".","/","|","0","1","2","3","4","5","6","7","8","9">>
      \o [i \in 1..(2 * Len(LowerChars)) |->
             IF i % 2 = 1 THEN LowerChars[(i + 1) \div 2] ELSE UpperChars[i \div 2]]

CharRank(c) ==
    IF \E i \in DOMAIN CollationOrder : CollationOrder[i] = c
    THEN CHOOSE i \in DOMAIN CollationOrder : CollationOrder[i] = c
    ELSE 0

RECURSIVE localeCompare(_, _)
localeCompare(a, b) ==
    IF a = <<>> /\ b = <<>> THEN 0
    ELSE IF a = <<>> THEN -1
    ELSE IF b = <<>> THEN 1
    ELSE IF CharRank(Head(a)) < CharRank(Head(b)) THEN -1
    ELSE IF CharRank(Head(a)) > CharRank(Head(b)) THEN 1
    ELSE localeCompare(Tail(a), Tail(b))

\* Array.prototype.sort((a, b) => a.groupId.localeCompare(b.groupId)), stable
RECURSIVE InsertGroup(_, _)
InsertGroup(sorted, g) ==
    IF sorted = <<>> THEN <<g>>
    ELSE IF localeCompare(g.groupId, Head(sorted).groupId) < 0 THEN <<g>> \o sorted
    ELSE <<Head(sorted)>> \o InsertGroup(Tail(sorted), g)

RECURSIVE SortGroups(_)
SortGroups(gs) ==
    IF gs = <<>> THEN <<>>
    ELSE InsertGroup(SortGroups(SubSeq(gs, 1, Len(gs) - 1)), gs[Len(gs)])

pendingItemsByModelOf(orders, active) ==
    LET all == GroupMap(orders, active, Len(orders))
        nonEmpty(g) == g.count > 0
    IN SortGroups(SeqFilter(all, nonEmpty))

\* the computed signal, read against the current orders and active rule
pendingItemsByModel == pendingItemsByModelOf(Orders, activeRule)

\* groups.find(g => g.groupId === selected)?.items || []
activeGroupItemsOf(gs, selected) ==
    IF selected # <<>> /\ \E g \in DOMAIN gs : gs[g].groupId = selected[1]
    THEN gs[CHOOSE g \in DOMAIN gs : gs[g].groupId = selected[1]].items
    ELSE <<>>

getActiveGroupItems == activeGroupItemsOf(pendingItemsByModel, selectedBatchModelGroup)

\* `${orderNumber}_${item.code}`
batchKey(orderNumber, code) == orderNumber \o <<"_">> \o code

----------------------------------------------------------------------------
(* ApiService: order store and link persistence *)

Event(op, ok, req) == [op |-> op, ok |-> ok, req |-> req]

NoEvent == Event("none", TRUE, <<>>)

Toast(type, message, count) == [type |-> type, message |-> message, count |-> count]

Remove(seq, n) == SubSeq(seq, 1, n - 1) \o SubSeq(seq, n + 1, Len(seq))

\* what getOrders() answers in mock mode: [...this.mockOrders]
MockOrdersAnswer == [k \in DOMAIN mockOrders |-> [cell |-> k]]

\* linkOrderItemsBatch (mock branch): every mock item whose code is in the batch
mockLinkBatch(orders, items, bydCode) ==
    [k \in DOMAIN orders |->
        [orders[k] EXCEPT !.items =
            [j \in DOMAIN orders[k].items |->
                IF \E i \in DOMAIN items : items[i].daltonCode = orders[k].items[j].code
                THEN [orders[k].items[j] EXCEPT !.isLinked = TRUE,
                                                !.linkedBydCode = bydCode,
                                                !.linkedBydDescription = "Batch Linked"]
                ELSE orders[k].items[j]]]]

\* linkOrderItem (mock branch)
mockLinkItem(orders, daltonCode, bydCode, description) ==
    [k \in DOMAIN orders |->
        [orders[k] EXCEPT !.items =
            [j \in DOMAIN orders[k].items |->
                IF orders[k].items[j].code = daltonCode
                THEN [orders[k].items[j] EXCEPT !.isLinked = TRUE,
                                                !.linkedBydCode = bydCode,
                                                !.linkedBydDescription = description]
                ELSE orders[k].items[j]]]]

\* transmitOrderToPlant (mock branch): find() marks the first order with that number
mockTransmit(orders, roNumber) ==
    IF \E k \in DOMAIN orders : orders[k].orderNumber = roNumber
    THEN LET k == CHOOSE i \in DOMAIN orders :
                     /\ orders[i].orderNumber = roNumber
                     /\ \A j \in 1..(i - 1) : orders[j].orderNumber # roNumber
         IN [orders EXCEPT ![k].status = "Transmitted"]
    ELSE orders

\* the answers a pending call can still get: the mock branches answer of(true);
\* the live branches answer the server's boolean, or false (no endpoint, HTTP error)
Answers(req) == IF req.mock THEN {TRUE} ELSE BOOLEAN

toggleMockData ==
    /\ useMockData' = ~useMockData
    /\ lastEvent' = Event("toggleMockData", TRUE, <<>>)
    /\ UNCHANGED <<selectedDealerCode, mockOrders, rawOrders, isLoading, batchVars,
                   listVars, inflight, notification>>
    /\ UNCHANGED <<ruleVars, linkerVars, catalogVars>>
    /\ UNCHANGED transmitted

----------------------------------------------------------------------------
(* ServiceOrdersComponent: loading *)

\* the part of fetchOrders() after the dealer check
FetchesInFlight ==
    {n \in DOMAIN inflight :
        inflight[n].kind = "getOrders" /\ inflight[n].origin = "fetchOrders"}

StartFetch(currentDealer) ==
    /\ \/ Len(inflight) < MaxInFlight
       \/ (FetchesInFlight = DOMAIN inflight /\ Len(inflight) < MaxFetches)
    /\ isLoading' = TRUE
    /\ inflight' = Append(inflight, [kind |-> "getOrders", origin |-> "fetchOrders",
                                     mock |-> useMockData, dealer |-> currentDealer])

fetchOrders ==
    /\ selectedDealerCode # ""
    /\ StartFetch(selectedDealerCode)
    /\ lastEvent' = Event("fetchOrders", TRUE, <<>>)
    /\ UNCHANGED <<apiVars, rawOrders, batchVars, listVars, notification>>
    /\ UNCHANGED <<ruleVars, linkerVars, catalogVars>>
    /\ UNCHANGED transmitted

\* the dealer selector of the application shell; the constructor's effect re-fetches
selectDealer(dealer) ==
    /\ dealer # selectedDealerCode
    /\ selectedDealerCode' = dealer
    /\ StartFetch(dealer)
    /\ lastEvent' = Event("selectDealer", TRUE, <<>>)
    /\ UNCHANGED <<useMockData, mockOrders, rawOrders, batchVars, listVars, notification>>
    /\ UNCHANGED <<ruleVars, linkerVars, catalogVars>>
    /\ UNCHANGED transmitted

\* subscribe next: of fetchOrders(); liveAnswer is what the live endpoint sent
getOrdersResponse(n, liveAnswer) ==
    /\ n \in DOMAIN inflight
    /\ inflight[n].kind = "getOrders"
    /\ inflight[n].origin = "fetchOrders"
    /\ rawOrders' = IF inflight[n].mock THEN MockOrdersAnswer ELSE liveAnswer
    /\ isLoading' = FALSE
    /\ inflight' = Remove(inflight, n)
    /\ lastEvent' = Event("getOrdersResponse", TRUE, <<inflight[n]>>)
    /\ UNCHANGED <<apiVars, batchVars, listVars, notification>>
    /\ UNCHANGED <<ruleVars, linkerVars, catalogVars>>
    /\ UNCHANGED transmitted

----------------------------------------------------------------------------
(* ServiceOrdersComponent: batch linking *)

GroupIds == {pendingItemsByModel[g].groupId : g \in DOMAIN pendingItemsByModel}

ActiveGroupKeys ==
    LET its == getActiveGroupItems
    IN {batchKey(its[i].orderNumber, Orders[its[i].item[1]].items[its[i].item[2]].code) :
            i \in DOMAIN its}

selectBatchModel(groupId) ==
    /\ selectedBatchModelGroup' = <<groupId>>
    /\ selectedBatchItems' = {}
    /\ selectedBatchTargetCode' = <<>>
    /\ lastEvent' = Event("selectBatchModel", TRUE, <<>>)
    /\ UNCHANGED <<apiVars, rawOrders, isLoading, isBatchProcessing, listVars, inflight,
                   notification>>
    /\ UNCHANGED <<ruleVars, linkerVars, catalogVars>>
    /\ UNCHANGED transmitted

toggleBatchItem(key, checked) ==
    /\ selectedBatchItems' = IF checked THEN selectedBatchItems \cup {key}
                             ELSE selectedBatchItems \ {key}
    /\ lastEvent' = Event("toggleBatchItem", checked, <<>>)
    /\ UNCHANGED <<apiVars, rawOrders, isLoading, selectedBatchModelGroup,
                   selectedBatchTargetCode, isBatchProcessing, listVars, inflight,
                   notification>>
    /\ UNCHANGED <<ruleVars, linkerVars, catalogVars>>
    /\ UNCHANGED transmitted

toggleBatchSelectAll(checked) ==
    /\ selectedBatchItems' = IF checked THEN selectedBatchItems \cup ActiveGroupKeys
                             ELSE selectedBatchItems \ ActiveGroupKeys
    /\ lastEvent' = Event("toggleBatchSelectAll", checked, <<>>)
    /\ UNCHANGED <<apiVars, rawOrders, isLoading, selectedBatchModelGroup,
                   selectedBatchTargetCode, isBatchProcessing, listVars, inflight,
                   notification>>
    /\ UNCHANGED <<ruleVars, linkerVars, catalogVars>>
    /\ UNCHANGED transmitted

selectBatchTarget(mapping) ==
    /\ selectedBatchTargetCode' = <<mapping>>
    /\ lastEvent' = Event("selectBatchTarget", TRUE, <<>>)
    /\ UNCHANGED <<apiVars, rawOrders, isLoading, selectedBatchModelGroup,
                   selectedBatchItems, isBatchProcessing, listVars, inflight,
                   notification>>
    /\ UNCHANGED <<ruleVars, linkerVars, catalogVars>>
    /\ UNCHANGED transmitted

\* itemsData.filter(selection.has(key)).map(d => ({daltonCode, description}));
\* key is not part of the payload: it remembers which checkbox the entry came from
itemsToLinkOf(itemsData, selection) ==
    LET F[i \in 0..Len(itemsData)] ==
        IF i = 0 THEN <<>>
        ELSE LET it == Orders[itemsData[i].item[1]].items[itemsData[i].item[2]]
             IN IF batchKey(itemsData[i].orderNumber, it.code) \in selection
                THEN Append(F[i - 1], [daltonCode |-> it.code,
                                       description |-> it.description,
                                       key |-> batchKey(itemsData[i].orderNumber, it.code)])
                ELSE F[i - 1]
    IN F[Len(itemsData)]

\* if (!mapping || selection.size === 0) return; comes before the flag is set
confirmBatchLink ==
    /\ Len(inflight) < MaxInFlight
    /\ IF selectedBatchTargetCode = <<>> \/ selectedBatchItems = {}
       THEN /\ lastEvent' = Event("confirmBatchLink", FALSE, <<>>)
            /\ UNCHANGED <<isBatchProcessing, mockOrders, inflight>>
       ELSE LET mapping == selectedBatchTargetCode[1]
                itemsToLink == itemsToLinkOf(getActiveGroupItems, selectedBatchItems)
                req == [kind |-> "linkBatch", mock |-> useMockData,
                        itemsToLink |-> itemsToLink, mapping |-> mapping]
            IN /\ isBatchProcessing' = TRUE
               /\ mockOrders' = IF useMockData
                                THEN mockLinkBatch(mockOrders, itemsToLink, mapping.bydCode)
                                ELSE mockOrders
               /\ inflight' = Append(inflight, req)
               /\ lastEvent' = Event("confirmBatchLink", TRUE, <<>>)
    /\ UNCHANGED <<useMockData, selectedDealerCode, rawOrders, isLoading,
                   selectedBatchModelGroup, selectedBatchItems, selectedBatchTargetCode,
                   listVars, notification>>
    /\ UNCHANGED <<ruleVars, linkerVars, catalogVars>>
    /\ UNCHANGED transmitted

\* orders.map(o => ({...o, items: o.items.map(i => inBatch(i) ? {...i, ...} : i)}))
batchLinkedOrders(entries, itemsToLink, bydCode) ==
    [k \in DOMAIN entries |->
        LET o == IF IsShared(entries[k]) THEN mockOrders[entries[k].cell] ELSE entries[k]
            its == ItemEntries(entries[k])
        IN [o EXCEPT !.items =
              [j \in DOMAIN its |->
                  IF \E i \in DOMAIN itemsToLink :
                        itemsToLink[i].daltonCode = ItemValue(its[j]).code
                  THEN [ItemValue(its[j]) EXCEPT !.isLinked = TRUE,
                                                 !.linkedBydCode = bydCode]
                  ELSE its[j]]]]

batchAnswerOrders_optimistic(entries, req, success) ==
    batchLinkedOrders(entries, req.itemsToLink, req.mapping.bydCode)

\* if (success) { this.rawOrders.update(...) }: the list after the answer
batchAnswerOrders(entries, req, success) ==
    IF success THEN batchLinkedOrders(entries, req.itemsToLink, req.mapping.bydCode)
    ELSE entries

\* resets the busy flag in the success branch only
batchLinkResponse_successOnly(n, success) ==
    /\ n \in DOMAIN inflight
    /\ inflight[n].kind = "linkBatch"
    /\ success \in Answers(inflight[n])
    /\ UNCHANGED <<apiVars, isLoading, listVars>>
    /\ UNCHANGED <<ruleVars, linkerVars, catalogVars>>
    /\ LET req == inflight[n]
           updated == batchAnswerOrders(rawOrders, req, success)
           groups == pendingItemsByModelOf(OrdersOf(updated), activeRule)
       IN /\ rawOrders' = updated
          /\ IF success
             THEN /\ notification' = <<Toast("success", "items vinculados exitosamente",
                                             Len(req.itemsToLink))>>
                  /\ selectedBatchItems' = {}
                  /\ selectedBatchTargetCode' = <<>>
                  /\ selectedBatchModelGroup' =
                        IF activeGroupItemsOf(groups, selectedBatchModelGroup) = <<>>
                        THEN <<>> ELSE selectedBatchModelGroup
             ELSE /\ notification' = <<Toast("error", "Error al vincular lote.", 0)>>
                  /\ UNCHANGED <<selectedBatchItems, selectedBatchTargetCode,
                                 selectedBatchModelGroup>>
    /\ isBatchProcessing' = IF success THEN FALSE ELSE isBatchProcessing
    /\ inflight' = Remove(inflight, n)
    /\ lastEvent' = Event("batchLinkResponse", success, <<inflight[n]>>)
    /\ UNCHANGED transmitted

\* the subscribe callback of confirmBatchLink()
batchLinkResponse(n, success) ==
    /\ n \in DOMAIN inflight
    /\ inflight[n].kind = "linkBatch"
    /\ success \in Answers(inflight[n])
    /\ UNCHANGED <<apiVars, isLoading, listVars>>
    /\ UNCHANGED <<ruleVars, linkerVars, catalogVars>>
    /\ LET req == inflight[n]
           updated == batchAnswerOrders(rawOrders, req, success)
           groups == pendingItemsByModelOf(OrdersOf(updated), activeRule)
       IN /\ rawOrders' = updated
          /\ IF success
             THEN /\ notification' = <<Toast("success", "items vinculados exitosamente",
                                             Len(req.itemsToLink))>>
                  /\ selectedBatchItems' = {}
                  /\ selectedBatchTargetCode' = <<>>
                  /\ selectedBatchModelGroup' =
                        IF activeGroupItemsOf(groups, selectedBatchModelGroup) = <<>>
                        THEN <<>> ELSE selectedBatchModelGroup
             ELSE /\ notification' = <<Toast("error", "Error al vincular lote.", 0)>>
                  /\ UNCHANGED <<selectedBatchItems, selectedBatchTargetCode,
                                 selectedBatchModelGroup>>
    /\ isBatchProcessing' = FALSE
    /\ inflight' = Remove(inflight, n)
    /\ lastEvent' = Event("batchLinkResponse", success, <<inflight[n]>>)
    /\ UNCHANGED transmitted

----------------------------------------------------------------------------
(* ServiceOrdersComponent: list view, single link *)

\* the order object behind an entry
EntryRecord(e) == IF IsShared(e) THEN mockOrders[e.cell] ELSE e

selectOrder(k) ==
    /\ k \in DOMAIN rawOrders
    /\ selectedOrder' = <<rawOrders[k]>>
    /\ lastEvent' = Event("selectOrder", TRUE, <<>>)
    /\ UNCHANGED <<apiVars, rawOrders, isLoading, batchVars, showTransmitModal,
                   transmissionPayload, itemToLink, selectedCandidate, inflight,
                   notification>>
    /\ UNCHANGED <<ruleVars, linkerVars, catalogVars>>
    /\ UNCHANGED transmitted

canTransmit_anyLinked(order) == \E j \in DOMAIN order.items : order.items[j].isLinked

\* order.items.some(i => i.isLinked) && order.status !== 'Transmitted'
canTransmit(order) ==
    /\ \E j \in DOMAIN order.items : order.items[j].isLinked
    /\ order.status # "Transmitted"

\* positions of the selected order's items that the list shows
visibleItems ==
    IF selectedOrder = <<>> THEN {}
    ELSE LET its == OrderValue(selectedOrder[1]).items
         IN {j \in DOMAIN its : isItemRelevant(its[j].code)}

\* item j of the selected order is clicked
openLinkModal(j) ==
    /\ selectedOrder # <<>>
    /\ j \in DOMAIN ItemEntries(selectedOrder[1])
    /\ itemToLink' = <<ItemEntries(selectedOrder[1])[j]>>
    /\ targetBydSeries' = split(OrderValue(selectedOrder[1]).modelDescRaw, " ")[1]
    /\ lastEvent' = Event("openLinkModal", TRUE, <<>>)
    /\ UNCHANGED <<apiVars, rawOrders, isLoading, batchVars, selectedOrder,
                   showTransmitModal, transmissionPayload, selectedCandidate, inflight,
                   notification>>
    /\ UNCHANGED <<ruleVars, linkerVars, mappings, mockMappings, searchTerm, aiAnalysis,
                   isAiAnalyzing>>
    /\ UNCHANGED transmitted

closeLinkModal ==
    /\ itemToLink' = <<>>
    /\ selectedCandidate' = <<>>
    /\ lastEvent' = Event("closeLinkModal", TRUE, <<>>)
    /\ UNCHANGED <<apiVars, rawOrders, isLoading, batchVars, selectedOrder,
                   showTransmitModal, transmissionPayload, inflight, notification>>
    /\ UNCHANGED <<ruleVars, linkerVars, catalogVars>>
    /\ UNCHANGED transmitted

selectCandidate(c) ==
    /\ selectedCandidate' = <<c>>
    /\ lastEvent' = Event("selectCandidate", TRUE, <<>>)
    /\ UNCHANGED <<apiVars, rawOrders, isLoading, batchVars, selectedOrder,
                   showTransmitModal, transmissionPayload, itemToLink, inflight,
                   notification>>
    /\ UNCHANGED <<ruleVars, linkerVars, catalogVars>>
    /\ UNCHANGED transmitted

confirmLink ==
    /\ itemToLink # <<>>
    /\ selectedCandidate # <<>>
    /\ Len(inflight) < MaxInFlight
    /\ LET item == ItemValue(itemToLink[1])
           cand == selectedCandidate[1]
           req == [kind |-> "linkItem", origin |-> "confirmLink", mock |-> useMockData,
                   daltonCode |-> item.code, cand |-> cand,
                   \* history: the order selected when the link was confirmed
                   orderId |-> IF selectedOrder = <<>> THEN ""
                               ELSE OrderValue(selectedOrder[1]).id]
       IN /\ mockOrders' = IF useMockData
                           THEN mockLinkItem(mockOrders, item.code, cand.bydCode,
                                             item.description)
                           ELSE mockOrders
          /\ inflight' = Append(inflight, req)
          /\ lastEvent' = Event("confirmLink", TRUE, <<>>)
    /\ UNCHANGED <<useMockData, selectedDealerCode, rawOrders, isLoading, batchVars,
                   listVars, notification>>
    /\ UNCHANGED <<ruleVars, linkerVars, catalogVars>>
    /\ UNCHANGED transmitted

\* order.items.map(i => i.code === item.code ? {...i, isLinked: true, ...} : i)
singleLinkedItems(entry, daltonCode, bydCode) ==
    LET its == ItemEntries(entry)
    IN [j \in DOMAIN its |->
          IF ItemValue(its[j]).code = daltonCode
          THEN [ItemValue(its[j]) EXCEPT !.isLinked = TRUE, !.linkedBydCode = bydCode]
          ELSE its[j]]

\* the subscribe callback of confirmLink()
linkResponse(n, success) ==
    /\ n \in DOMAIN inflight
    /\ inflight[n].kind = "linkItem"
    /\ inflight[n].origin = "confirmLink"
    /\ success \in Answers(inflight[n])
    /\ LET req == inflight[n]
       IN IF success
          THEN /\ IF selectedOrder # <<>>
                  THEN LET order == selectedOrder[1]
                           newItems == singleLinkedItems(order, req.daltonCode,
                                                         req.cand.bydCode)
                       IN /\ selectedOrder' =
                                <<[EntryRecord(order) EXCEPT !.items = newItems]>>
                          /\ rawOrders' =
                                [k \in DOMAIN rawOrders |->
                                    IF EntryRecord(rawOrders[k]).id = EntryRecord(order).id
                                    THEN [EntryRecord(rawOrders[k]) EXCEPT
                                              !.items = newItems]
                                    ELSE rawOrders[k]]
                  ELSE UNCHANGED <<selectedOrder, rawOrders>>
               /\ itemToLink' = <<>>
               /\ selectedCandidate' = <<>>
               /\ notification' = <<Toast("success", "Vinculado correctamente", 0)>>
          ELSE UNCHANGED <<selectedOrder, rawOrders, itemToLink, selectedCandidate,
                           notification>>
    /\ inflight' = Remove(inflight, n)
    /\ lastEvent' = Event("linkResponse", success, <<inflight[n]>>)
    /\ UNCHANGED <<apiVars, isLoading, batchVars, showTransmitModal, transmissionPayload>>
    /\ UNCHANGED <<ruleVars, linkerVars, catalogVars>>
    /\ UNCHANGED transmitted

----------------------------------------------------------------------------
(* ServiceOrdersComponent: transmission *)

\* ApiService.buildTransmissionPayload (repairDate: the order's date, not modelled)
buildTransmissionPayload(order) ==
    LET linked(i) == i.isLinked
        linkedItems == SeqFilter(order.items, linked)
    IN [header |-> [dealerCode |-> selectedDealerCode,
                    roNumber |-> order.orderNumber,
                    vin |-> order.vin,
                    modelCode |-> order.modelCodeRaw],
        laborList |-> [i \in DOMAIN linkedItems |->
                          [lineId |-> i,
                           operationCode |-> linkedItems[i].linkedBydCode,
                           internalCode |-> linkedItems[i].code,
                           description |->
                               IF linkedItems[i].linkedBydDescription # ""
                               THEN linkedItems[i].linkedBydDescription
                               ELSE linkedItems[i].description]]]

initiateTransmission ==
    /\ selectedOrder # <<>>
    /\ transmissionPayload' = <<buildTransmissionPayload(OrderValue(selectedOrder[1]))>>
    /\ showTransmitModal' = TRUE
    /\ lastEvent' = Event("initiateTransmission", TRUE, <<>>)
    /\ UNCHANGED <<apiVars, rawOrders, isLoading, batchVars, selectedOrder, itemToLink,
                   selectedCandidate, inflight, notification>>
    /\ UNCHANGED <<ruleVars, linkerVars, catalogVars>>
    /\ UNCHANGED transmitted

closeTransmitModal ==
    /\ showTransmitModal' = FALSE
    /\ lastEvent' = Event("closeTransmitModal", TRUE, <<>>)
    /\ UNCHANGED <<apiVars, rawOrders, isLoading, batchVars, selectedOrder,
                   transmissionPayload, itemToLink, selectedCandidate, inflight,
                   notification>>
    /\ UNCHANGED <<ruleVars, linkerVars, catalogVars>>
    /\ UNCHANGED transmitted

\* hands the payload to ApiService.transmitOrderToPlant
confirmTransmission ==
    /\ transmissionPayload # <<>>
    /\ Len(inflight) < MaxInFlight
    /\ LET payload == transmissionPayload[1]
           req == [kind |-> "transmit", mock |-> useMockData,
                   roNumber |-> payload.header.roNumber]
       IN /\ mockOrders' = IF useMockData
                           THEN mockTransmit(mockOrders, payload.header.roNumber)
                           ELSE mockOrders
          /\ inflight' = Append(inflight, req)
          /\ lastEvent' = Event("confirmTransmission", TRUE, <<req>>)
    /\ UNCHANGED <<useMockData, selectedDealerCode, rawOrders, isLoading, batchVars,
                   listVars, notification>>
    /\ UNCHANGED <<ruleVars, linkerVars, catalogVars>>
    /\ UNCHANGED transmitted

\* the subscribe callback of confirmTransmission(); a success re-fetches
transmitResponse(n, success) ==
    /\ n \in DOMAIN inflight
    /\ inflight[n].kind = "transmit"
    /\ success \in Answers(inflight[n])
    /\ IF success
       THEN /\ notification' = <<Toast("success", "Orden transmitida", 0)>>
            /\ showTransmitModal' = FALSE
            /\ IF selectedDealerCode # ""
               THEN /\ isLoading' = TRUE
                    /\ inflight' = Append(Remove(inflight, n),
                                          [kind |-> "getOrders", origin |-> "fetchOrders",
                                           mock |-> useMockData,
                                           dealer |-> selectedDealerCode])
               ELSE /\ inflight' = Remove(inflight, n)
                    /\ UNCHANGED isLoading
       ELSE /\ notification' = <<Toast("error", "Error en transmision", 0)>>
            /\ inflight' = Remove(inflight, n)
            /\ UNCHANGED <<showTransmitModal, isLoading>>
    /\ transmitted' = IF success THEN transmitted \cup {inflight[n].roNumber}
                      ELSE transmitted
    /\ lastEvent' = Event("transmitResponse", success, <<inflight[n]>>)
    /\ UNCHANGED <<apiVars, rawOrders, batchVars, selectedOrder, transmissionPayload,
                   itemToLink, selectedCandidate>>
    /\ UNCHANGED <<ruleVars, linkerVars, catalogVars>>

----------------------------------------------------------------------------
(* MappingLinkerComponent: linking a catalog entry to pending order items *)

\* openLinkToOrdersModal, loadPendingOrderItems() included
openLinkToOrdersModal(mapping) ==
    /\ Len(inflight) < MaxInFlight
    /\ selectedMappingForLink' = <<mapping>>
    /\ showLinkToOrderModal' = TRUE
    /\ selectedOrderItemsToLink' = {}
    /\ isProcessingLink' = TRUE
    /\ inflight' = Append(inflight, [kind |-> "getOrders", origin |-> "loadPendingOrderItems",
                                     mock |-> useMockData])
    /\ lastEvent' = Event("openLinkToOrdersModal", TRUE, <<>>)
    /\ UNCHANGED pendingOrderItems
    /\ UNCHANGED <<apiVars, rawOrders, isLoading, batchVars, listVars, notification>>
    /\ UNCHANGED <<ruleVars, catalogVars>>
    /\ UNCHANGED uploadVars
    /\ UNCHANGED transmitted

\* the unlinked items of the orders that are neither Rejected nor Completed,
\* copied ({...item, orderRef}) in list order
RECURSIVE pendingOf(_)
pendingOf(orders) ==
    IF orders = <<>> THEN <<>>
    ELSE LET order == orders[Len(orders)]
             unlinked(i) == ~i.isLinked
             own == SeqFilter(order.items, unlinked)
         IN pendingOf(SubSeq(orders, 1, Len(orders) - 1)) \o
               (IF order.status = "Rejected" \/ order.status = "Completed" THEN <<>>
                ELSE [j \in DOMAIN own |->
                         [code |-> own[j].code, description |-> own[j].description,
                          orderRef |-> order.orderNumber]])

\* the subscribe callback of loadPendingOrderItems()
loadPendingResponse(n, liveAnswer) ==
    /\ n \in DOMAIN inflight
    /\ inflight[n].kind = "getOrders"
    /\ inflight[n].origin = "loadPendingOrderItems"
    /\ pendingOrderItems' =
          pendingOf(IF inflight[n].mock THEN OrdersOf(MockOrdersAnswer) ELSE liveAnswer)
    /\ isProcessingLink' = FALSE
    /\ inflight' = Remove(inflight, n)
    /\ lastEvent' = Event("loadPendingResponse", TRUE, <<>>)
    /\ UNCHANGED <<showLinkToOrderModal, selectedMappingForLink, selectedOrderItemsToLink>>
    /\ UNCHANGED <<apiVars, rawOrders, isLoading, batchVars, listVars, notification>>
    /\ UNCHANGED <<ruleVars, catalogVars>>
    /\ UNCHANGED uploadVars
    /\ UNCHANGED transmitted

toggleOrderItemSelection(itemCode, checked) ==
    /\ selectedOrderItemsToLink' = IF checked THEN selectedOrderItemsToLink \cup {itemCode}
                                   ELSE selectedOrderItemsToLink \ {itemCode}
    /\ lastEvent' = Event("toggleOrderItemSelection", checked, <<>>)
    /\ UNCHANGED <<showLinkToOrderModal, selectedMappingForLink, pendingOrderItems,
                   isProcessingLink>>
    /\ UNCHANGED orderVarsButEvent
    /\ UNCHANGED <<ruleVars, catalogVars>>
    /\ UNCHANGED uploadVars
    /\ UNCHANGED transmitted

\* MappingLinkerComponent.closeLinkModal
closeLinkToOrdersModal ==
    /\ showLinkToOrderModal' = FALSE
    /\ selectedMappingForLink' = <<>>
    /\ lastEvent' = Event("closeLinkToOrdersModal", TRUE, <<>>)
    /\ UNCHANGED <<pendingOrderItems, selectedOrderItemsToLink, isProcessingLink>>
    /\ UNCHANGED orderVarsButEvent
    /\ UNCHANGED <<ruleVars, catalogVars>>
    /\ UNCHANGED uploadVars
    /\ UNCHANGED transmitted

\* the description sent with a code: that of the first pending item with the code
bulkDescription(daltonCode) ==
    IF \E i \in DOMAIN pendingOrderItems : pendingOrderItems[i].code = daltonCode
    THEN pendingOrderItems[CHOOSE i \in DOMAIN pendingOrderItems :
                              /\ pendingOrderItems[i].code = daltonCode
                              /\ \A h \in 1..(i - 1) : pendingOrderItems[h].code # daltonCode
                          ].description
    ELSE "Vinculacion Manual"

\* the orderings Array.from(set) can have
Orderings(set) ==
    {q \in [1..Cardinality(set) -> set] : \A a, b \in DOMAIN q : a # b => q[a] # q[b]}

\* mockOrders after linkOrderItem has run for codes[1..k] (mock branch)
RECURSIVE mockLinkAll(_, _, _, _)
mockLinkAll(orders, codes, mapping, k) ==
    IF k = 0 THEN orders
    ELSE mockLinkItem(mockLinkAll(orders, codes, mapping, k - 1), codes[k],
                      mapping.bydCode, bulkDescription(codes[k]))

\* a name for the processedCount closure of one confirmBulkLink() call
FreeJob == CHOOSE j \in 1..(MaxInFlight + 1) :
               /\ \A n \in DOMAIN inflight :
                     "job" \in DOMAIN inflight[n] => inflight[n].job # j
               /\ \A h \in 1..(j - 1) :
                     \E n \in DOMAIN inflight :
                        "job" \in DOMAIN inflight[n] /\ inflight[n].job = h

confirmBulkLink ==
    /\ selectedMappingForLink # <<>>
    /\ selectedOrderItemsToLink # {}
    /\ Len(inflight) + Cardinality(selectedOrderItemsToLink) <= MaxInFlight
    /\ \E selectedCodes \in Orderings(selectedOrderItemsToLink) :
          LET mapping == selectedMappingForLink[1]
              total == Len(selectedCodes)
          IN /\ mockOrders' = IF useMockData
                              THEN mockLinkAll(mockOrders, selectedCodes, mapping, total)
                              ELSE mockOrders
             /\ inflight' = inflight \o
                   [i \in 1..total |->
                       [kind |-> "linkItem", origin |-> "confirmBulkLink",
                        mock |-> useMockData, daltonCode |-> selectedCodes[i],
                        cand |-> mapping, job |-> FreeJob, total |-> total]]
             /\ notification' = <<Toast("info", "Vinculando items en segundo plano...",
                                        total)>>
    /\ showLinkToOrderModal' = FALSE
    /\ selectedMappingForLink' = <<>>
    /\ isProcessingLink' = FALSE
    /\ lastEvent' = Event("confirmBulkLink", TRUE, <<>>)
    /\ UNCHANGED <<pendingOrderItems, selectedOrderItemsToLink>>
    /\ UNCHANGED <<useMockData, selectedDealerCode, rawOrders, isLoading, batchVars,
                   listVars>>
    /\ UNCHANGED <<ruleVars, catalogVars>>
    /\ UNCHANGED uploadVars
    /\ UNCHANGED transmitted

\* processedCount after the answer to inflight[n] has been counted
processedCountAfter(n) ==
    inflight[n].total -
        Cardinality({m \in DOMAIN inflight \ {n} :
                        /\ inflight[m].origin = "confirmBulkLink"
                        /\ inflight[m].job = inflight[n].job})

\* subscribe(() => { processedCount++; if (processedCount === length) show(...) })
bulkToast(current, n, success) ==
    IF processedCountAfter(n) = inflight[n].total
    THEN <<Toast("success", "Vinculacion masiva completada", processedCountAfter(n))>>
    ELSE current

\* the subscribe callback of one linkOrderItem call of confirmBulkLink()
bulkLinkResponse(n, success) ==
    /\ n \in DOMAIN inflight
    /\ inflight[n].kind = "linkItem"
    /\ inflight[n].origin = "confirmBulkLink"
    /\ success \in Answers(inflight[n])
    /\ notification' = bulkToast(notification, n, success)
    /\ inflight' = Remove(inflight, n)
    /\ lastEvent' = Event("bulkLinkResponse", success, <<inflight[n]>>)
    /\ UNCHANGED linkerVars
    /\ UNCHANGED <<apiVars, rawOrders, isLoading, batchVars, listVars>>
    /\ UNCHANGED <<ruleVars, catalogVars>>
    /\ UNCHANGED transmitted

----------------------------------------------------------------------------
(* StoreService: the master catalog *)

uuidText(n) == "uuid-" \o ToString(n)

\* the effect of the constructor, run again whenever useMockData changes
loadMappings ==
    /\ Len(inflight) < MaxInFlight
    /\ inflight' = Append(inflight, [kind |-> "getMappings", mock |-> useMockData])
    /\ lastEvent' = Event("loadMappings", TRUE, <<>>)
    /\ UNCHANGED <<apiVars, rawOrders, isLoading, batchVars, listVars, notification>>
    /\ UNCHANGED <<ruleVars, linkerVars, catalogVars>>
    /\ UNCHANGED transmitted

\* subscribe next: of loadMappings(); liveAnswer is what the live endpoint sent
getMappingsResponse(n, liveAnswer) ==
    /\ n \in DOMAIN inflight
    /\ inflight[n].kind = "getMappings"
    /\ mappings' = IF inflight[n].mock THEN mockMappings ELSE liveAnswer
    /\ inflight' = Remove(inflight, n)
    /\ lastEvent' = Event("getMappingsResponse", TRUE, <<>>)
    /\ UNCHANGED <<apiVars, rawOrders, isLoading, batchVars, listVars, notification>>
    /\ UNCHANGED <<ruleVars, linkerVars, mockMappings, targetBydSeries, searchTerm,
                   aiAnalysis, isAiAnalyzing>>
    /\ UNCHANGED transmitted

\* addMapping(item); in live mode createMapping throws when no endpoint is configured
addMapping(item, configured) ==
    /\ nextUuid < FirstUuid + MaxUuids
    /\ Len(inflight) < MaxInFlight
    /\ LET newItem == [id |-> uuidText(nextUuid), bydCode |-> item.bydCode,
                       bydType |-> item.bydType, daltonCode |-> item.daltonCode,
                       status |-> "Linked", description |-> item.description,
                       vehicleSeries |-> item.vehicleSeries,
                       vehicleModel |-> item.vehicleModel]
           req == [kind |-> "createMapping", mock |-> useMockData, item |-> newItem]
       IN /\ nextUuid' = nextUuid + 1
          /\ mockMappings' = IF useMockData THEN <<newItem>> \o mockMappings
                             ELSE mockMappings
          /\ inflight' = IF useMockData \/ configured THEN Append(inflight, req)
                         ELSE inflight
          /\ lastEvent' = Event("addMapping", useMockData \/ configured, <<req>>)
    /\ UNCHANGED <<apiVars, rawOrders, isLoading, batchVars, listVars, notification>>
    /\ UNCHANGED <<rules, classificationRules, simulatorCode, simulatorDesc, lastCall>>
    /\ UNCHANGED <<linkerVars, mappings, targetBydSeries, searchTerm, aiAnalysis,
                   isAiAnalyzing>>
    /\ UNCHANGED transmitted

\* the answer to createMapping: subscribe next: on success, nothing on an error
createMappingResponse(n, success) ==
    /\ n \in DOMAIN inflight
    /\ inflight[n].kind = "createMapping"
    /\ success \in Answers(inflight[n])
    /\ mappings' = IF success THEN <<inflight[n].item>> \o mappings ELSE mappings
    /\ inflight' = Remove(inflight, n)
    /\ lastEvent' = Event("createMappingResponse", success, <<inflight[n]>>)
    /\ UNCHANGED <<apiVars, rawOrders, isLoading, batchVars, listVars, notification>>
    /\ UNCHANGED <<ruleVars, linkerVars, mockMappings, targetBydSeries, searchTerm,
                   aiAnalysis, isAiAnalyzing>>
    /\ UNCHANGED transmitted

withoutId(list, id) == SelectSeq(list, LAMBDA m : m.id # id)

\* removeMapping(id)
removeMapping(id) ==
    /\ Len(inflight) < MaxInFlight
    /\ mockMappings' = IF useMockData THEN withoutId(mockMappings, id) ELSE mockMappings
    /\ inflight' = Append(inflight, [kind |-> "deleteMapping", mock |-> useMockData,
                                     id |-> id])
    /\ lastEvent' = Event("removeMapping", TRUE, <<>>)
    /\ UNCHANGED <<apiVars, rawOrders, isLoading, batchVars, listVars, notification>>
    /\ UNCHANGED <<ruleVars, linkerVars, mappings, targetBydSeries, searchTerm,
                   aiAnalysis, isAiAnalyzing>>
    /\ UNCHANGED transmitted

\* the catalog after the answer to deleteMapping: subscribe next: does not look at it
mappingsAfterDelete(list, id, success) == withoutId(list, id)

\* the answer to deleteMapping: of(true) in mock mode; of(false) in live mode when
\* no endpoint is configured or the request failed
deleteMappingResponse(n, success) ==
    /\ n \in DOMAIN inflight
    /\ inflight[n].kind = "deleteMapping"
    /\ success \in Answers(inflight[n])
    /\ mappings' = mappingsAfterDelete(mappings, inflight[n].id, success)
    /\ inflight' = Remove(inflight, n)
    /\ lastEvent' = Event("deleteMappingResponse", success, <<inflight[n]>>)
    /\ UNCHANGED <<apiVars, rawOrders, isLoading, batchVars, listVars, notification>>
    /\ UNCHANGED <<ruleVars, linkerVars, mockMappings, targetBydSeries, searchTerm,
                   aiAnalysis, isAiAnalyzing>>
    /\ UNCHANGED transmitted

----------------------------------------------------------------------------
(* MappingLinkerComponent: importing a sheet into the catalog *)

\* a header or cell that the sheet does not have
undefined == "<undefined>"

\* the rows XLSX.utils.sheet_to_json answers with, keyed by column header
GoodSheet ==
    << ("Repair item code" :> " WSA-900 ")
         @@ ("Repair item name" :> "Brake Pad-Front")
         @@ ("Main category name" :> "Chassis repair")
         @@ ("Vehicle code" :> "SONG PLUS DMI")
         @@ ("Name of project Vehicle Series" :> " SONG PLUS DMI"),
       ("Repair item name" :> "Wiper blades")
         @@ ("Battery pack repair or not" :> "Yes"),
       ("Repair item code" :> "WSA-901")
         @@ ("Repair item name" :> "Oil filter")
         @@ ("Claim labor hour code" :> "BRK-01") >>

\* a sheet whose factory codes stand under another header
NoCodeSheet ==
    << ("Item code" :> "WSA-900")
         @@ ("Repair item name" :> "Oil filter")
         @@ ("Vehicle code" :> "SEAL") >>

EmptySheet == <<>>

\* a factory code without a name
NoNameSheet == << ("Repair item code" :> "WSA-901") >>

SheetInputs == {GoodSheet, NoCodeSheet, EmptySheet, NoNameSheet}

\* row['header']
Cell(row, header) == IF header \in DOMAIN row THEN row[header] ELSE undefined

\* a value is truthy unless it is undefined or the empty text
Truthy(value) == value # undefined /\ value # ""

\* the text with the given characters
StringOf(chars) == CHOOSE text \in DOMAIN CharTable : CharTable[text] = chars

\* const clean = (s) => s ? String(s).trim() : ''
clean(value) == IF Truthy(value) THEN StringOf(trim(Chars(value))) ELSE ""

\* String(row['Battery pack repair or not']).toLowerCase() === 'yes'
isBattery(row) ==
    LET value == Cell(row, "Battery pack repair or not")
    IN value # undefined /\ toLowerCase(Chars(value)) = <<"y","e","s">>

\* String(row['Main category name'] || '').toLowerCase().includes('repair')
catNameIsRepair(row) ==
    LET value == Cell(row, "Main category name")
    IN Truthy(value) /\ includes(toLowerCase(Chars(value)), <<"r","e","p","a","i","r">>)

\* desc.toLowerCase() is reached and desc is undefined
rowThrows(row) ==
    /\ Truthy(Cell(row, "Repair item code"))
    /\ ~isBattery(row)
    /\ ~catNameIsRepair(row)
    /\ Cell(row, "Repair item name") = undefined

typeOfRow(row) ==
    IF \/ isBattery(row)
       \/ catNameIsRepair(row)
       \/ includes(toLowerCase(Chars(Cell(row, "Repair item name"))),
                   <<"r","e","p","a","i","r">>)
    THEN "Repair" ELSE "Labor"

\* the item built from a row that has a factory code (categories, hours and
\* model year are carried along unread and left out here)
itemOfRow(row) ==
    LET bydCode == Cell(row, "Repair item code")
        dalton == IF Truthy(Cell(row, "Claim labor hour code"))
                  THEN Cell(row, "Claim labor hour code") ELSE bydCode
    IN [bydCode |-> clean(bydCode), bydType |-> typeOfRow(row),
        daltonCode |-> clean(dalton), description |-> clean(Cell(row, "Repair item name")),
        vehicleModel |-> clean(Cell(row, "Vehicle code")),
        vehicleSeries |-> clean(Cell(row, "Name of project Vehicle Series"))]

\* jsonData.forEach(row => { if (bydCode) newMappings.push(item) })
newMappingsOf(jsonData) ==
    LET hasCode(row) == Truthy(Cell(row, "Repair item code"))
        rows == SeqFilter(jsonData, hasCode)
    IN [k \in DOMAIN rows |-> itemOfRow(rows[k])]

\* Object.keys(firstRow)
headersOf(jsonData) == DOMAIN jsonData[1]

\* processFile up to reader.readAsBinaryString(file)
processFile(sheet) ==
    /\ Cardinality(reading) < MaxReads
    /\ isUploading' = TRUE
    /\ reading' = reading \cup {sheet}
    /\ lastEvent' = Event("processFile", TRUE, <<>>)
    /\ UNCHANGED <<previewHeaders, previewData, previewMappings, showPreviewModal,
                   insertionData, showInsertionModal>>
    /\ UNCHANGED <<showLinkToOrderModal, selectedMappingForLink, pendingOrderItems,
                   selectedOrderItemsToLink, isProcessingLink>>
    /\ UNCHANGED orderVarsButEvent
    /\ UNCHANGED <<ruleVars, catalogVars>>
    /\ UNCHANGED transmitted

NoCodeColumnToast ==
    Toast("warning", "No se encontraron columnas válidas (Repair item code).", 0)

\* reader.onload
fileLoaded(sheet) ==
    /\ sheet \in reading
    /\ reading' = reading \ {sheet}
    /\ isUploading' = FALSE
    /\ previewHeaders' = IF Len(sheet) > 0 THEN headersOf(sheet) ELSE previewHeaders
    /\ previewData' = IF Len(sheet) > 0 THEN sheet ELSE previewData
    /\ IF \E k \in DOMAIN sheet : rowThrows(sheet[k])
       THEN /\ notification' = <<Toast("error", "Error al leer el archivo Excel.", 0)>>
            /\ lastEvent' = Event("fileLoaded", FALSE, <<sheet>>)
            /\ UNCHANGED <<previewMappings, showPreviewModal>>
       ELSE IF Len(newMappingsOf(sheet)) > 0
       THEN /\ previewMappings' = newMappingsOf(sheet)
            /\ showPreviewModal' = TRUE
            /\ lastEvent' = Event("fileLoaded", TRUE, <<sheet>>)
            /\ UNCHANGED notification
       ELSE /\ notification' = <<NoCodeColumnToast>>
            /\ lastEvent' = Event("fileLoaded", FALSE, <<sheet>>)
            /\ UNCHANGED <<previewMappings, showPreviewModal>>
    /\ UNCHANGED <<insertionData, showInsertionModal>>
    /\ UNCHANGED <<showLinkToOrderModal, selectedMappingForLink, pendingOrderItems,
                   selectedOrderItemsToLink, isProcessingLink>>
    /\ UNCHANGED <<apiVars, rawOrders, isLoading, batchVars, listVars, inflight>>
    /\ UNCHANGED <<ruleVars, catalogVars>>
    /\ UNCHANGED transmitted

\* EndpointConfigService.transformToSqlStructure
transformToSqlStructure(items) ==
    [index \in DOMAIN items |->
        [IdModeloVehiculo |-> index,
         Nombre |-> IF items[index].vehicleModel # "" THEN items[index].vehicleModel
                    ELSE "GENERICO",
         Codigo |-> items[index].bydCode,
         Descripcion |-> items[index].description]]

proceedToInsertion ==
    /\ insertionData' = transformToSqlStructure(previewMappings)
    /\ showPreviewModal' = FALSE
    /\ showInsertionModal' = TRUE
    /\ lastEvent' = Event("proceedToInsertion", TRUE, <<>>)
    /\ UNCHANGED <<isUploading, reading, previewHeaders, previewData, previewMappings>>
    /\ UNCHANGED <<showLinkToOrderModal, selectedMappingForLink, pendingOrderItems,
                   selectedOrderItemsToLink, isProcessingLink>>
    /\ UNCHANGED orderVarsButEvent
    /\ UNCHANGED <<ruleVars, catalogVars>>
    /\ UNCHANGED transmitted

cancelInsertion ==
    /\ showInsertionModal' = FALSE
    /\ showPreviewModal' = TRUE
    /\ lastEvent' = Event("cancelInsertion", TRUE, <<>>)
    /\ UNCHANGED <<isUploading, reading, previewHeaders, previewData, previewMappings,
                   insertionData>>
    /\ UNCHANGED <<showLinkToOrderModal, selectedMappingForLink, pendingOrderItems,
                   selectedOrderItemsToLink, isProcessingLink>>
    /\ UNCHANGED orderVarsButEvent
    /\ UNCHANGED <<ruleVars, catalogVars>>
    /\ UNCHANGED transmitted

\* resetUploadState
uploadStateReset ==
    /\ previewMappings' = <<>>
    /\ previewData' = <<>>
    /\ previewHeaders' = {}
    /\ insertionData' = <<>>
    /\ showInsertionModal' = FALSE
    /\ showPreviewModal' = FALSE

\* confirmFinalInsertion; a live call without a configured endpoint is
\* answered false before the method returns
confirmFinalInsertion(configured) ==
    /\ Len(inflight) < MaxInFlight
    /\ IF Len(insertionData) = 0
       THEN /\ lastEvent' = Event("confirmFinalInsertion", FALSE, <<>>)
            /\ UNCHANGED <<previewHeaders, previewData, previewMappings, showPreviewModal,
                           insertionData, showInsertionModal, inflight, notification>>
       ELSE LET req == [kind |-> "dynamicInsert", mock |-> useMockData,
                        data |-> insertionData, items |-> previewMappings]
            IN /\ uploadStateReset
               /\ IF useMockData \/ configured
                  THEN /\ inflight' = Append(inflight, req)
                       /\ notification' =
                             <<Toast("info", "Iniciando carga masiva en segundo plano...",
                                     Len(previewMappings))>>
                  ELSE /\ inflight' = inflight
                       /\ notification' =
                             <<Toast("warning",
                                     "La carga finalizo con advertencias del servidor.", 0)>>
               /\ lastEvent' = Event("confirmFinalInsertion", TRUE, <<req>>)
    /\ UNCHANGED <<isUploading, reading>>
    /\ UNCHANGED <<showLinkToOrderModal, selectedMappingForLink, pendingOrderItems,
                   selectedOrderItemsToLink, isProcessingLink>>
    /\ UNCHANGED <<apiVars, rawOrders, isLoading, batchVars, listVars>>
    /\ UNCHANGED <<ruleVars, catalogVars>>
    /\ UNCHANGED transmitted

\* StoreService.addBatchMappings: [...newItems, ...current]
addBatchMappings(current, items, firstUuid) ==
    [k \in DOMAIN items |->
        [id |-> uuidText(firstUuid + k - 1), bydCode |-> items[k].bydCode,
         bydType |-> items[k].bydType, daltonCode |-> items[k].daltonCode,
         status |-> "Linked", description |-> items[k].description,
         vehicleSeries |-> items[k].vehicleSeries,
         vehicleModel |-> items[k].vehicleModel]] \o current

\* the answer to executeDynamicInsert: subscribe next
dynamicInsertResponse(n, success) ==
    /\ n \in DOMAIN inflight
    /\ inflight[n].kind = "dynamicInsert"
    /\ success \in Answers(inflight[n])
    /\ nextUuid + Len(inflight[n].items) <= FirstUuid + MaxUuids
    /\ IF success
       THEN /\ mappings' = addBatchMappings(mappings, inflight[n].items, nextUuid)
            /\ nextUuid' = nextUuid + Len(inflight[n].items)
            /\ notification' = <<Toast("success", "Carga completada", Len(inflight[n].items))>>
       ELSE /\ notification' =
                  <<Toast("warning", "La carga finalizo con advertencias del servidor.", 0)>>
            /\ UNCHANGED <<mappings, nextUuid>>
    /\ inflight' = Remove(inflight, n)
    /\ lastEvent' = Event("dynamicInsertResponse", success, <<inflight[n]>>)
    /\ UNCHANGED linkerVars
    /\ UNCHANGED <<apiVars, rawOrders, isLoading, batchVars, listVars>>
    /\ UNCHANGED <<rules, classificationRules, simulatorCode, simulatorDesc, lastCall>>
    /\ UNCHANGED <<mockMappings, targetBydSeries, searchTerm, aiAnalysis, isAiAnalyzing>>
    /\ UNCHANGED transmitted

discardUpload ==
    /\ uploadStateReset
    /\ lastEvent' = Event("discardUpload", TRUE, <<>>)
    /\ UNCHANGED <<isUploading, reading>>
    /\ UNCHANGED <<showLinkToOrderModal, selectedMappingForLink, pendingOrderItems,
                   selectedOrderItemsToLink, isProcessingLink>>
    /\ UNCHANGED orderVarsButEvent
    /\ UNCHANGED <<ruleVars, catalogVars>>
    /\ UNCHANGED transmitted

----------------------------------------------------------------------------
(* ServiceOrdersComponent: candidates offered for an item *)

\* the series selector of the link dialog
setTargetBydSeries(series) ==
    /\ targetBydSeries' = series
    /\ lastEvent' = Event("setTargetBydSeries", TRUE, <<>>)
    /\ UNCHANGED orderVarsButEvent
    /\ UNCHANGED <<ruleVars, linkerVars, mappings, mockMappings, searchTerm, aiAnalysis,
                   isAiAnalyzing>>
    /\ UNCHANGED transmitted

\* analyzeItemWithAi() up to the await
analyzeItemWithAi ==
    /\ itemToLink # <<>>
    /\ Len(inflight) < MaxInFlight
    /\ isAiAnalyzing' = TRUE
    /\ inflight' = Append(inflight, [kind |-> "translateToKeywords", mock |-> useMockData])
    /\ lastEvent' = Event("analyzeItemWithAi", TRUE, <<>>)
    /\ UNCHANGED <<apiVars, rawOrders, isLoading, batchVars, listVars, notification>>
    /\ UNCHANGED <<ruleVars, linkerVars, mappings, mockMappings, targetBydSeries,
                   searchTerm, aiAnalysis>>
    /\ UNCHANGED transmitted

\* what the provider call of a GeminiService method comes to: no API key, a
\* rejected or failed generateContent call, a response without text, an answer
ProviderOutcomes == {"noKey", "throws", "noText", "answered"}

\* a promise that rejects instead of resolving to a value
Raised == [raised |-> TRUE]

NoHints == [translation |-> "", keywords |-> <<>>]

\* lets the error of generateContent reach the caller
translateToKeywords_uncaught(outcome, answer) ==
    IF outcome = "noKey" THEN NoHints
    ELSE IF outcome = "throws" THEN Raised
    ELSE IF outcome = "noText" THEN NoHints
    ELSE answer

\* GeminiService.translateToKeywords
translateToKeywords(outcome, answer) ==
    IF outcome = "noKey" THEN NoHints
    ELSE IF outcome = "throws" THEN NoHints
    ELSE IF outcome = "noText" THEN NoHints
    ELSE answer

\* GeminiService.suggestMapping
suggestMapping(outcome, answer) ==
    IF outcome = "noKey" THEN <<>>
    ELSE IF outcome = "throws" THEN <<>>
    ELSE IF outcome = "noText" THEN <<>>
    ELSE answer

\* what the provider answers to suggestMapping
SuggestionInputs ==
    { <<>>,
      << [code |-> "WSA-03", type |-> "Labor", reasoning |-> "", confidence |-> "Low"] >> }

\* analyzeItemWithAi() after the await: try { ... } finally { isAiAnalyzing.set(false) }
translateToKeywordsResponse(n, outcome, answer) ==
    /\ n \in DOMAIN inflight
    /\ inflight[n].kind = "translateToKeywords"
    /\ LET result == translateToKeywords(outcome, answer)
       IN IF result = Raised
          THEN UNCHANGED <<aiAnalysis, searchTerm, notification>>
          ELSE /\ aiAnalysis' = <<result>>
               /\ IF result.translation # ""
                  THEN /\ searchTerm' = Chars(result.translation)
                       /\ notification' = <<Toast("info", "Busqueda actualizada", 1)>>
                  ELSE UNCHANGED <<searchTerm, notification>>
    /\ isAiAnalyzing' = FALSE
    /\ inflight' = Remove(inflight, n)
    /\ lastEvent' = Event("translateToKeywordsResponse", outcome = "answered", <<>>)
    /\ UNCHANGED <<apiVars, rawOrders, isLoading, batchVars, listVars>>
    /\ UNCHANGED <<ruleVars, linkerVars, mappings, mockMappings, targetBydSeries>>
    /\ UNCHANGED transmitted

textOf(entry, field) == Chars(entry[field])

\* text.toLowerCase() of the texts of the catalog and of the hints
LowerCaseTable == [text \in DOMAIN CharTable |-> toLowerCase(CharTable[text])]

lowerTextOf(entry, field) == LowerCaseTable[entry[field]]

\* filteredCandidates of the order list: series by containment, then the search term
filteredCandidatesOf(catalog, seriesRaw, termRaw) ==
    LET term == toLowerCase(termRaw)
        series == toUpperCase(seriesRaw)
        Keep(m) ==
            /\ ~(series # <<>> /\ ~includes(toUpperCase(textOf(m, "vehicleSeries")), series))
            /\ ~(/\ term # <<>>
                 /\ ~includes(toLowerCase(textOf(m, "description")), term)
                 /\ ~includes(toLowerCase(textOf(m, "bydCode")), term))
        kept == SelectSeq(catalog, Keep)
    IN SubSeq(kept, 1, IF Len(kept) < 50 THEN Len(kept) ELSE 50)

filteredCandidates == filteredCandidatesOf(mappings, targetBydSeries, searchTerm)

\* matchSeries of the link dialog: strict equality with the series or the model
matchSeries(m, series) ==
    \/ lowerTextOf(m, "vehicleSeries") = series
    \/ lowerTextOf(m, "vehicleModel") = series

\* filteredCandidates of the link dialog with the series context
filteredCandidatesBySeriesOf(catalog, seriesRaw, termRaw) ==
    LET series == toLowerCase(seriesRaw)
        term == toLowerCase(termRaw)
        Keep(m) ==
            /\ matchSeries(m, series)
            /\ \/ term = <<>>
               \/ includes(toLowerCase(textOf(m, "description")), term)
               \/ includes(toLowerCase(textOf(m, "bydCode")), term)
        kept == SelectSeq(catalog, Keep)
    IN IF series = <<>> THEN <<>>
       ELSE SubSeq(kept, 1, IF Len(kept) < 50 THEN Len(kept) ELSE 50)

filteredCandidatesBySeries ==
    filteredCandidatesBySeriesOf(mappings, targetBydSeries, searchTerm)

\* analysis.keywords.map(k => k.toLowerCase().trim()).filter(k => k.length > 2)
keywordsOf(analysis) ==
    SelectSeq([i \in DOMAIN analysis.keywords |->
                   trim(LowerCaseTable[analysis.keywords[i]])],
              LAMBDA k : Len(k) > 2)

IsTokenSeparator(c) == IsSpace(c) \/ c \in {"-", "_", ",", "."}

\* String.prototype.split(/[\s-_,.]+/): a run of separators separates two pieces
RECURSIVE splitTokensFrom(_, _, _)
splitTokensFrom(s, cur, inRun) ==
    IF s = <<>> THEN <<cur>>
    ELSE IF IsTokenSeparator(Head(s))
         THEN IF inRun THEN splitTokensFrom(Tail(s), cur, TRUE)
              ELSE <<cur>> \o splitTokensFrom(Tail(s), <<>>, TRUE)
    ELSE splitTokensFrom(Tail(s), Append(cur, Head(s)), FALSE)

splitTokens(s) == splitTokensFrom(s, <<>>, FALSE)

\* desc.split(/[\s-_,.]+/) of the lower-case descriptions of the catalog
DescTokensTable == [text \in DOMAIN CharTable |-> splitTokens(LowerCaseTable[text])]

\* the body of keywords.forEach: what one keyword adds to the score
keywordScore_bestOnly(desc, code, descTokens, kw) ==
    IF \E t \in DOMAIN descTokens : descTokens[t] = kw THEN 15
    ELSE IF includes(desc, kw) THEN 8
    ELSE IF includes(code, kw) THEN 5
    ELSE 0

keywordScore(desc, code, descTokens, kw) ==
    (IF \E t \in DOMAIN descTokens : descTokens[t] = kw THEN 15
     ELSE IF includes(desc, kw) THEN 8 ELSE 0)
    + (IF includes(code, kw) THEN 5 ELSE 0)
    + (IF Len(kw) > 4 /\ startsWith(desc, kw) THEN 5 ELSE 0)

RECURSIVE sumScores(_, _, _, _)
sumScores(desc, code, descTokens, keywords) ==
    IF keywords = <<>> THEN 0
    ELSE keywordScore(desc, code, descTokens, Head(keywords))
         + sumScores(desc, code, descTokens, Tail(keywords))

scoreOf_lastKeyword(m, keywords) ==
    LET desc == lowerTextOf(m, "description")
        code == lowerTextOf(m, "bydCode")
    IN IF keywords = <<>> THEN 0
       ELSE keywordScore(desc, code, DescTokensTable[m.description],
                         keywords[Len(keywords)])

\* the score of one entry for the keywords kept
scoreOf(m, keywords) ==
    LET desc == lowerTextOf(m, "description")
        code == lowerTextOf(m, "bydCode")
    IN sumScores(desc, code, DescTokensTable[m.description], keywords)

\* candidates.push({...m, matchScore}) for the entries of the series that scored
RECURSIVE scoredCandidates(_, _, _)
scoredCandidates(catalog, series, keywords) ==
    IF catalog = <<>> THEN <<>>
    ELSE LET m == Head(catalog)
             rest == scoredCandidates(Tail(catalog), series, keywords)
         IN IF ~matchSeries(m, series) THEN rest
            ELSE LET score == scoreOf(m, keywords)
                 IN IF score > 0 THEN <<[entry |-> m, matchScore |-> score]>> \o rest
                    ELSE rest

\* Array.prototype.sort((a, b) => b.matchScore - a.matchScore): stable
RECURSIVE insertByScore(_, _)
insertByScore(sorted, c) ==
    IF sorted = <<>> THEN <<c>>
    ELSE IF Head(sorted).matchScore >= c.matchScore
         THEN <<Head(sorted)>> \o insertByScore(Tail(sorted), c)
    ELSE <<c>> \o sorted

RECURSIVE sortByScore(_)
sortByScore(candidates) ==
    IF candidates = <<>> THEN <<>>
    ELSE insertByScore(sortByScore(SubSeq(candidates, 1, Len(candidates) - 1)),
                       candidates[Len(candidates)])

topCandidates_catalogOrder(candidates) ==
    SubSeq(candidates, 1, IF Len(candidates) < 20 THEN Len(candidates) ELSE 20)

\* .sort(...).slice(0, 20)
topCandidates(candidates) ==
    LET sorted == sortByScore(candidates)
    IN SubSeq(sorted, 1, IF Len(sorted) < 20 THEN Len(sorted) ELSE 20)

aiSuggestedCandidatesOf(catalog, analysis, seriesRaw) ==
    LET series == toLowerCase(seriesRaw)
    IN IF analysis = <<>> \/ series = <<>> THEN <<>>
       ELSE LET keywords == keywordsOf(analysis[1])
            IN IF keywords = <<>> THEN <<>>
               ELSE topCandidates(scoredCandidates(catalog, series, keywords))

aiSuggestedCandidates == aiSuggestedCandidatesOf(mappings, aiAnalysis, targetBydSeries)

----------------------------------------------------------------------------
(* Specifications *)

\* BusinessRulesService and BusinessLogicComponent after construction
RulesStateInit ==
    /\ rules = DefaultRules
    /\ classificationRules = DefaultClassificationRules
    /\ nextUuid = FirstUuid
    /\ simulatorCode = MO006
    /\ simulatorDesc = REVISION_DE_FRENOS_DELANTEROS
    /\ lastCall = NoCall

\* ApiService and ServiceOrdersComponent after construction
OrdersStateInit ==
    /\ useMockData = TRUE
    /\ selectedDealerCode = ""
    /\ mockOrders = InitialMockOrders
    /\ rawOrders = <<>>
    /\ isLoading = FALSE
    /\ selectedOrder = <<>>
    /\ selectedBatchModelGroup = <<>>
    /\ selectedBatchItems = {}
    /\ selectedBatchTargetCode = <<>>
    /\ isBatchProcessing = FALSE
    /\ showTransmitModal = FALSE
    /\ transmissionPayload = <<>>
    /\ itemToLink = <<>>
    /\ selectedCandidate = <<>>
    /\ inflight = <<>>
    /\ notification = <<>>
    /\ lastEvent = NoEvent

\* MappingLinkerComponent after construction
LinkerStateInit ==
    /\ showLinkToOrderModal = FALSE
    /\ selectedMappingForLink = <<>>
    /\ pendingOrderItems = <<>>
    /\ selectedOrderItemsToLink = {}
    /\ isProcessingLink = FALSE

\* StoreService and the link dialog after construction
CatalogStateInit ==
    /\ mappings = <<>>
    /\ mockMappings = InitialMockMappings
    /\ targetBydSeries = <<>>
    /\ searchTerm = <<>>
    /\ aiAnalysis = <<>>
    /\ isAiAnalyzing = FALSE

\* the import dialog of MappingLinkerComponent after construction
UploadStateInit ==
    /\ isUploading = FALSE
    /\ reading = {}
    /\ previewHeaders = {}
    /\ previewData = <<>>
    /\ previewMappings = <<>>
    /\ showPreviewModal = FALSE
    /\ insertionData = <<>>
    /\ showInsertionModal = FALSE
    /\ transmitted = {}

Init ==
    RulesStateInit /\ OrdersStateInit /\ LinkerStateInit /\ CatalogStateInit
       /\ UploadStateInit

RulesInit == Init

\* admission profiles: BusinessLogicComponent driving the rule list
RulesNext ==
    \/ \E id \in RuleIdInputs : setActiveRule(id)
    \/ \E p \in PlaceholderInputs : addRule(p)
    \/ \E id \in RuleIdInputs, ch \in ChangeInputs : updateRule(id, ch)
    \/ \E id \in RuleIdInputs : deleteRule(id)
    \/ \E c \in SimulatorCodeInputs : setSimulatorCode(c)

RulesSpec == RulesInit /\ [][RulesNext]_vars

\* classification dictionary: BusinessLogicComponent driving the keyword list
ClassNext ==
    \/ \E r \in KeywordInputs : addClassificationRule(r)
    \/ \E id \in ClassIdInputs : deleteClassificationRule(id)
    \/ \E d \in DescInputs : setSimulatorDesc(d)

ClassSpec == RulesInit /\ [][ClassNext]_vars

\* the answers of the live order endpoint explored by the batch view
LiveOrdersInputs ==
    { <<>>,
      << [id |-> "501", orderNumber |-> <<"A","1">>, vin |-> "VIN501",
          modelCodeRaw |-> <<"S","E","A","L">>, modelDescRaw |-> <<"S","E","A","L">>,
          year |-> <<>>, status |-> "Transmitted",
          items |-> << NewItem(MO006, "MANO DE OBRA") >>],
         [id |-> "502", orderNumber |-> <<"A","2">>, vin |-> "VIN502",
          modelCodeRaw |-> <<"S","E","A","L">>, modelDescRaw |-> <<"S","E","A","L">>,
          year |-> <<>>, status |-> "Pending",
          items |-> << NewItem(MO006, "MANO DE OBRA"),
                       NewItem(ZLAB, "LABORATORIO") >>] >> }

\* the checkboxes ticked one by one; the others go through "select all"
BatchKeyInputs == {batchKey(XCL00430, MO006), batchKey(<<"A","2">>, MO006)}

BatchTargetInputs == {m \in Mappings : m.bydType = "Labor"}

\* batch view of ServiceOrdersComponent against ApiService
Next ==
    \/ toggleMockData
    \/ \E d \in DealerInputs : selectDealer(d)
    \/ \E n \in 1..MaxInFlight, a \in LiveOrdersInputs : getOrdersResponse(n, a)
    \/ \E g \in GroupIds : selectBatchModel(g)
    \/ \E k \in ActiveGroupKeys \cap BatchKeyInputs, c \in BOOLEAN : toggleBatchItem(k, c)
    \/ \E c \in BOOLEAN : toggleBatchSelectAll(c)
    \/ \E m \in BatchTargetInputs : selectBatchTarget(m)
    \/ confirmBatchLink
    \/ \E n \in 1..MaxInFlight, ok \in BOOLEAN : batchLinkResponse(n, ok)

Spec == Init /\ [][Next]_vars

\* the busy flags: loading and batch linking, every pending call answered in the
\* end (the HTTP observables complete or fail into catchError, the mock ones
\* are answered by a timer)
BusyNext ==
    \/ toggleMockData
    \/ \E d \in DealerInputs : selectDealer(d)
    \/ fetchOrders
    \/ \E n \in 1..MaxFetches, a \in LiveOrdersInputs : getOrdersResponse(n, a)
    \/ \E g \in GroupIds : selectBatchModel(g)
    \/ \E c \in BOOLEAN : toggleBatchSelectAll(c)
    \/ \E m \in BatchTargetInputs : selectBatchTarget(m)
    \/ confirmBatchLink
    \/ \E n \in 1..MaxInFlight, ok \in BOOLEAN : batchLinkResponse(n, ok)

\* the delivery of an answer, seen on the queue of pending calls: the steps of
\* getOrdersResponse and of batchLinkResponse, and enabled exactly when they are
ordersAnswered ==
    \E n \in DOMAIN inflight :
        /\ inflight[n].kind = "getOrders"
        /\ inflight[n].origin = "fetchOrders"
        /\ inflight' = Remove(inflight, n)

batchAnswered ==
    \E n \in DOMAIN inflight :
        /\ inflight[n].kind = "linkBatch"
        /\ inflight' = Remove(inflight, n)

BusySpec ==
    /\ Init
    /\ [][BusyNext]_vars
    /\ WF_inflight(ordersAnswered)
    /\ WF_inflight(batchAnswered)

\* the selected order passes the canTransmit check that enables the button
canTransmitSelected == selectedOrder # <<>> /\ canTransmit(OrderValue(selectedOrder[1]))

\* an answer of the live order endpoint with a partially linked order
PartlyLinkedOrdersInputs ==
    { << [id |-> "601", orderNumber |-> <<"B","1">>, vin |-> "VIN601",
          modelCodeRaw |-> <<"S","E","A","L">>, modelDescRaw |-> <<"S","E","A","L">>,
          year |-> <<>>, status |-> "In Process",
          items |-> << [NewItem(MO006, "MANO DE OBRA") EXCEPT
                            !.isLinked = TRUE, !.linkedBydCode = "WSA3HAC02101GH00"],
                       NewItem(ZLAB, "LABORATORIO") >>],
         [id |-> "602", orderNumber |-> <<"B","2">>, vin |-> "VIN602",
          modelCodeRaw |-> <<"S","E","A","L">>, modelDescRaw |-> <<"S","E","A","L">>,
          year |-> <<>>, status |-> "In Process",
          items |-> << [NewItem(MO006, "MANO DE OBRA") EXCEPT
                            !.isLinked = TRUE, !.linkedBydCode = "WSA3HAC02101GH00"],
                       NewItem(FIL_ACE, "FILTRO DE ACEITE") >>],
         [id |-> "603", orderNumber |-> <<"B","3">>, vin |-> "VIN603",
          modelCodeRaw |-> <<"S","E","A","L">>, modelDescRaw |-> <<"S","E","A","L">>,
          year |-> <<>>, status |-> "Transmitted",
          items |-> << [NewItem(MO006, "MANO DE OBRA") EXCEPT
                            !.isLinked = TRUE, !.linkedBydCode = "WSA3HAC02101GH00"] >>] >> }

\* list view of ServiceOrdersComponent: single link
LinkNext ==
    \/ toggleMockData
    \/ \E d \in DealerInputs : selectDealer(d)
    \/ \E n \in 1..MaxInFlight, a \in LiveOrdersInputs : getOrdersResponse(n, a)
    \/ \E k \in 1..MaxOrders : selectOrder(k)
    \/ \E j \in visibleItems : openLinkModal(j)
    \/ closeLinkModal
    \/ \E c \in BatchTargetInputs : selectCandidate(c)
    \/ confirmLink
    \/ \E n \in 1..MaxInFlight, ok \in BOOLEAN : linkResponse(n, ok)

LinkSpec == Init /\ [][LinkNext]_vars

\* list view of ServiceOrdersComponent: transmission
TransmitNext ==
    \/ toggleMockData
    \/ \E d \in DealerInputs : selectDealer(d)
    \/ fetchOrders
    \/ \E n \in 1..MaxInFlight, a \in PartlyLinkedOrdersInputs : getOrdersResponse(n, a)
    \/ \E k \in 1..MaxOrders : selectOrder(k)
    \/ (canTransmitSelected /\ initiateTransmission)
    \/ closeTransmitModal
    \/ confirmTransmission
    \/ \E n \in 1..MaxInFlight, ok \in BOOLEAN : transmitResponse(n, ok)

TransmitSpec == Init /\ [][TransmitNext]_vars

\* the answers of the live order endpoint before and after order B1 is transmitted
RefetchOrdersInputs ==
    PartlyLinkedOrdersInputs
       \cup {mockTransmit(orders, <<"B","1">>) : orders \in PartlyLinkedOrdersInputs}

\* list view of ServiceOrdersComponent: the selection across re-fetches
SelectionNext ==
    \/ toggleMockData
    \/ \E d \in DealerInputs : selectDealer(d)
    \/ fetchOrders
    \/ \E n \in 1..MaxInFlight, a \in RefetchOrdersInputs : getOrdersResponse(n, a)
    \/ \E k \in 1..MaxOrders : selectOrder(k)
    \/ (canTransmitSelected /\ initiateTransmission)
    \/ closeTransmitModal
    \/ confirmTransmission
    \/ \E n \in 1..MaxInFlight, ok \in BOOLEAN : transmitResponse(n, ok)

SelectionSpec == Init /\ [][SelectionNext]_vars

\* the codes ticked in the link-to-orders dialog
BulkCodeInputs == {MO006, FIL_ACE}

\* catalog screen: MappingLinkerComponent against ApiService
LinkerNext ==
    \/ toggleMockData
    \/ \E m \in Mappings : openLinkToOrdersModal(m)
    \/ \E n \in 1..MaxInFlight, a \in LiveOrdersInputs : loadPendingResponse(n, a)
    \/ \E c \in BulkCodeInputs \cap {pendingOrderItems[i].code : i \in DOMAIN pendingOrderItems},
          b \in BOOLEAN : toggleOrderItemSelection(c, b)
    \/ closeLinkToOrdersModal
    \/ confirmBulkLink
    \/ \E n \in 1..MaxInFlight, ok \in BOOLEAN : bulkLinkResponse(n, ok)

LinkerSpec == Init /\ [][LinkerNext]_vars

SEAL == <<"S","E","A","L">>

Linked(item) == [item EXCEPT !.isLinked = TRUE, !.linkedBydCode = "WSA3HAC02101GH00"]

LiveOrder(id, number, desc, code, year, status, items) ==
    [id |-> id, orderNumber |-> number, vin |-> "VIN", modelCodeRaw |-> code,
     modelDescRaw |-> desc, year |-> year, status |-> status, items |-> items]

\* orders the live endpoint can answer with
OrderInputs ==
    { LiveOrder("701", <<"G","1">>, SongPlusBC, SOPL25BY, Y2025, "Pending",
                <<NewItem(MO006, "MANO DE OBRA"), NewItem(FIL_ACE, "FILTRO DE ACEITE")>>),
      LiveOrder("703", <<"G","3">>, SEAL, SEAL, <<>>, "In Process",
                <<Linked(NewItem(MO006, "MANO DE OBRA")), NewItem(ZLAB, "LABORATORIO")>>),
      LiveOrder("704", <<"G","4">>, SEAL, SEAL, <<>>, "Transmitted",
                <<NewItem(MO006, "MANO DE OBRA"), NewItem(ZLAB, "LABORATORIO")>>),
      LiveOrder("705", <<"G","5">>, <<>>, <<>>, Y2025, "Completed",
                <<NewItem(ZLAB, "LABORATORIO")>>),
      LiveOrder("707", <<"G","7">>, <<>>, <<>>, Y2025, "Pending",
                <<NewItem(<<" ","m","o","0","0","6"," ">>, "MANO DE OBRA"),
                  NewItem(MO006, "MANO DE OBRA")>>) }

GroupOrdersInputs == UNION {[1..n -> OrderInputs] : n \in 0..MaxListLen}

\* the whitelists the active profile is edited to
WhitelistInputs == {[placeholderCodes |-> p] : p \in PlaceholderInputs}

\* the grouping pass over the lists the order endpoint can answer with
GroupNext ==
    \/ toggleMockData
    \/ \E d \in DealerInputs : selectDealer(d)
    \/ \E n \in 1..MaxInFlight, a \in GroupOrdersInputs : getOrdersResponse(n, a)
    \/ \E c \in WhitelistInputs : updateRule(0, c)

GroupSpec == Init /\ [][GroupNext]_vars

SongPlusWide ==
    <<"S","O","N","G"," "," ","P","L","U","S"," ","2","0","2","5"," ","B","C">>

SONG_PLUS == <<"S","O","N","G"," ","P","L","U","S">>

OneLabourItem == <<NewItem(MO006, "MANO DE OBRA")>>

\* orders whose model description, model code and year vary
KeyOrderInputs ==
    { LiveOrder("801", <<"K","1">>, SongPlusBC, SOPL25BY, Y2025, "Pending", OneLabourItem),
      LiveOrder("802", <<"K","2">>, SongPlusBLRed, SOPL25BY, Y2025, "In Process",
                OneLabourItem \o OneLabourItem),
      LiveOrder("803", <<"K","3">>, SongPlusWide, SOPL25BY, Y2025, "Pending", OneLabourItem),
      LiveOrder("804", <<"K","4">>, <<>>, SONG_PLUS, Y2025, "Pending", OneLabourItem),
      LiveOrder("805", <<"K","5">>, <<>>, <<>>, <<>>, "Pending", OneLabourItem),
      LiveOrder("806", <<"K","6">>, SEAL, SEAL, <<>>, "Pending", OneLabourItem),
      LiveOrder("807", <<"K","7">>, <<>>, SOPL25BY, Y2025, "Pending", OneLabourItem) }

KeyOrdersInputs == UNION {[1..n -> KeyOrderInputs] : n \in 0..MaxListLen}

\* the group keys of the lists the order endpoint can answer with
KeyNext ==
    \/ toggleMockData
    \/ \E d \in DealerInputs : selectDealer(d)
    \/ fetchOrders
    \/ \E n \in 1..MaxInFlight, a \in KeyOrdersInputs : getOrdersResponse(n, a)

KeySpec == Init /\ [][KeyNext]_vars

\* the dealers of the selector of the application shell
FetchDealerInputs == {"MEX022429", "MEX022310"}

\* loading the order list while the dealer changes
FetchNext ==
    \/ toggleMockData
    \/ \E d \in FetchDealerInputs : selectDealer(d)
    \/ fetchOrders
    \/ \E n \in 1..MaxFetches, a \in LiveOrdersInputs : getOrdersResponse(n, a)

FetchSpec == Init /\ [][FetchNext]_vars

\* the entries the catalog page asks to remove
RemoveIdInputs == {"1", "L1", uuidText(FirstUuid)}

\* the catalog page adding and removing entries of the master catalog
StoreNext ==
    \/ toggleMockData
    \/ loadMappings
    \/ \E n \in 1..MaxInFlight : \E a \in LiveCatalogInputs : getMappingsResponse(n, a)
    \/ \E item \in NewMappingInputs : \E configured \in BOOLEAN :
           addMapping(item, configured)
    \/ \E n \in 1..MaxInFlight : \E success \in BOOLEAN : createMappingResponse(n, success)
    \/ \E id \in RemoveIdInputs : removeMapping(id)
    \/ \E n \in 1..MaxInFlight : \E success \in BOOLEAN : deleteMappingResponse(n, success)

StoreSpec == Init /\ [][StoreNext]_vars

\* the link dialog: series context and keyword hints over the catalog
MatchNext ==
    \/ toggleMockData
    \/ loadMappings
    \/ \E n \in 1..MaxInFlight : \E a \in LiveCatalogInputs : getMappingsResponse(n, a)
    \/ \E dealer \in DealerInputs : selectDealer(dealer)
    \/ \E n \in 1..MaxInFlight : \E a \in LiveOrdersInputs : getOrdersResponse(n, a)
    \/ selectOrder(1)
    \/ openLinkModal(1)
    \/ \E series \in SeriesInputs : setTargetBydSeries(series)
    \/ analyzeItemWithAi
    \/ \E n \in 1..MaxInFlight : \E outcome \in ProviderOutcomes :
          \E answer \in AnalysisInputs : translateToKeywordsResponse(n, outcome, answer)

MatchSpec == Init /\ [][MatchNext]_vars

\* the import dialog: sheets read, previewed, transformed and sent
UploadNext ==
    \/ toggleMockData
    \/ \E sheet \in SheetInputs : processFile(sheet)
    \/ \E sheet \in SheetInputs : fileLoaded(sheet)
    \/ proceedToInsertion
    \/ cancelInsertion
    \/ \E configured \in BOOLEAN : confirmFinalInsertion(configured)
    \/ \E n \in 1..MaxInFlight, success \in BOOLEAN : dynamicInsertResponse(n, success)
    \/ discardUpload

UploadSpec == Init /\ [][UploadNext]_vars

----------------------------------------------------------------------------
(* Properties of the batch view (Spec) *)

LastRequest == lastEvent.req[1]

SelectedKeys(req) == {req.itemsToLink[i].key : i \in DOMAIN req.itemsToLink}

\* C1: when the persistence call of a batch link is answered false, the order
\* list is left as it was: the step that issues a live call and the step that
\* receives the negative answer both leave every order and item unchanged.
C1_FailedBatchLeavesOrders ==
    [][/\ (lastEvent'.op = "batchLinkResponse" /\ ~lastEvent'.ok)
            => (rawOrders' = rawOrders /\ Orders' = Orders)
       /\ (lastEvent'.op = "confirmBatchLink" /\ ~useMockData)
            => (rawOrders' = rawOrders /\ Orders' = Orders)]_vars

\* a negative answer has arrived for a batch whose items are still unlinked
C1_Witness ==
    /\ lastEvent.op = "batchLinkResponse"
    /\ ~lastEvent.ok
    /\ LastRequest.itemsToLink # <<>>
    /\ \E k \in DOMAIN Orders : \E j \in DOMAIN Orders[k].items :
          /\ batchKey(Orders[k].orderNumber, Orders[k].items[j].code)
                \in SelectedKeys(LastRequest)
          /\ ~Orders[k].items[j].isLinked

\* C6: the positive answer of a batch link marks exactly the selected
\* (order, item) pairs as linked to the chosen factory code; every other item
\* keeps its linked flag and binding.
C6_ExactlySelectedLinked ==
    [][(lastEvent'.op = "batchLinkResponse" /\ lastEvent'.ok) =>
          \A k \in DOMAIN Orders : \A j \in DOMAIN Orders[k].items :
              LET before == Orders[k].items[j]
                  after == Orders'[k].items[j]
                  req == lastEvent'.req[1]
              IN IF batchKey(Orders[k].orderNumber, before.code) \in SelectedKeys(req)
                 THEN after.isLinked /\ after.linkedBydCode = req.mapping.bydCode
                 ELSE after = before]_vars

----------------------------------------------------------------------------
(* Properties of the list view (TransmitSpec) *)

\* the unlinked items of an order that are placeholders under the active rule
unresolvedPlaceholders(order) ==
    {j \in DOMAIN order.items :
        ~order.items[j].isLinked /\ isPlaceholderCode(order.items[j].code)}

\* C3: no order that still holds an unlinked placeholder item of the active
\* rule is handed to transmitOrderToPlant.
C3_NoTransmitWithUnlinkedPlaceholder ==
    [][lastEvent'.op = "confirmTransmission" =>
          \A k \in DOMAIN Orders :
              Orders[k].orderNumber = lastEvent'.req[1].roNumber
                  => unresolvedPlaceholders(Orders[k]) = {}]_vars

LinkedItems(order) == {j \in DOMAIN order.items : order.items[j].isLinked}

\* C11: canTransmit(order) is true exactly when the order has at least one
\* linked item and its status is not Transmitted, for every order of the list
\* and for the selected order.
C11_CanTransmitIffLinkedAndNotTransmitted ==
    \A order \in {Orders[k] : k \in DOMAIN Orders}
                 \cup {OrderValue(selectedOrder[i]) : i \in DOMAIN selectedOrder} :
        canTransmit(order)
            <=> (Cardinality(LinkedItems(order)) >= 1 /\ ~(order.status = "Transmitted"))

\* the list holds an order that can be transmitted, a Transmitted order with a
\* linked item, and the selected order has no linked item
C11_Witness ==
    /\ \E k \in DOMAIN Orders : canTransmit(Orders[k])
    /\ \E k \in DOMAIN Orders :
          Orders[k].status = "Transmitted" /\ LinkedItems(Orders[k]) # {}
    /\ selectedOrder # <<>>
    /\ LinkedItems(OrderValue(selectedOrder[1])) = {}

----------------------------------------------------------------------------
(* Properties of the single link (LinkSpec) *)

\* the items of the selected order that carry the code of a link request
TargetsOf(entry, req) ==
    {j \in DOMAIN OrderValue(entry).items :
        OrderValue(entry).items[j].code = req.daltonCode}

\* C12: a positively answered single link leaves the item linked with the
\* candidate's factory code and a description snapshot (the candidate's or
\* the item's own), whatever binding the item had before; and when the item
\* already carried that binding the step leaves the order's items as they were.
C12_SingleLinkRecordsBinding ==
    [][(lastEvent'.op = "linkResponse" /\ lastEvent'.ok /\ selectedOrder # <<>>) =>
          LET req == lastEvent'.req[1]
              before == OrderValue(selectedOrder[1]).items
              after == OrderValue(selectedOrder'[1]).items
              targets == TargetsOf(selectedOrder[1], req)
          IN /\ \A j \in targets :
                   /\ after[j].isLinked
                   /\ after[j].linkedBydCode = req.cand.bydCode
                   /\ after[j].linkedBydDescription
                         \in {req.cand.description, before[j].description}
             /\ (\A j \in targets :
                    before[j].isLinked /\ before[j].linkedBydCode = req.cand.bydCode)
                   => after = before]_vars

----------------------------------------------------------------------------
(* Properties of the link requests (LinkerSpec) *)

LinkAnswers == {"linkResponse", "batchLinkResponse", "bulkLinkResponse"}

\* C2: a link request answered negatively reports no success and marks
\* nothing locally: on the step that receives a false answer to a single, batch
\* or bulk link, no success toast is emitted and the orders held by the
\* component stay as they were.
C2_SuccessOnlyAfterConfirmation ==
    [][(lastEvent'.op \in LinkAnswers /\ ~lastEvent'.ok) =>
          /\ rawOrders' = rawOrders
          /\ selectedOrder' = selectedOrder
          /\ (notification' = notification \/ notification'[1].type # "success")]_vars

----------------------------------------------------------------------------
(* Properties of the grouping pass (GroupSpec) *)

\* the (order, item) positions that are unlinked, relevant under the active
\* rule and belong to an order that is neither Transmitted nor Completed
EligibleItems ==
    UNION {{<<k, j>> : j \in {i \in DOMAIN Orders[k].items :
                                 /\ ~Orders[k].items[i].isLinked
                                 /\ isItemRelevant(Orders[k].items[i].code)}} :
              k \in {o \in DOMAIN Orders : ~IsTerminal(Orders[o])}}

\* the places (group, position) at which the groups hold an item
GroupSlots ==
    UNION {{<<g, p>> : p \in DOMAIN pendingItemsByModel[g].items} :
              g \in DOMAIN pendingItemsByModel}

RECURSIVE SumCounts(_, _)
SumCounts(gs, g) == IF g = 0 THEN 0 ELSE SumCounts(gs, g - 1) + gs[g].count

\* C5: the groups of pendingItemsByModel partition the eligible items: every
\* eligible item is held at exactly one place of exactly one group, every place
\* holds an eligible item, and the group counts add up to the number of
\* eligible items.
C5_GroupsPartitionEligibleItems ==
    LET gs == pendingItemsByModel
    IN /\ \A e \in EligibleItems :
             Cardinality({s \in GroupSlots : gs[s[1]].items[s[2]].item = e}) = 1
       /\ \A s \in GroupSlots : gs[s[1]].items[s[2]].item \in EligibleItems
       /\ SumCounts(gs, Len(gs)) = Cardinality(EligibleItems)

\* a group is listed, an eligible item shares its order with a linked or
\* irrelevant item, and a terminal order holds an unlinked relevant item
C5_Witness ==
    /\ pendingItemsByModel # <<>>
    /\ \E e \in EligibleItems :
          \E j \in DOMAIN Orders[e[1]].items : <<e[1], j>> \notin EligibleItems
    /\ \E k \in DOMAIN Orders :
          /\ IsTerminal(Orders[k])
          /\ \E j \in DOMAIN Orders[k].items :
                ~Orders[k].items[j].isLinked /\ isItemRelevant(Orders[k].items[j].code)

----------------------------------------------------------------------------
(* Properties of the group key (KeySpec) *)

\* the whitespace-separated tokens of a text
RECURSIVE TokensFrom(_, _)
TokensFrom(s, cur) ==
    IF s = <<>> THEN (IF cur = <<>> THEN <<>> ELSE <<cur>>)
    ELSE IF IsSpace(Head(s))
         THEN (IF cur = <<>> THEN <<>> ELSE <<cur>>) \o TokensFrom(Tail(s), <<>>)
         ELSE TokensFrom(Tail(s), Append(cur, Head(s)))

Tokens(s) == TokensFrom(s, <<>>)

FirstTwoTokens(s) == SubSeq(Tokens(s), 1, IF Len(Tokens(s)) < 2 THEN Len(Tokens(s)) ELSE 2)

OpenOrders == {k \in DOMAIN Orders : ~IsTerminal(Orders[k])}

\* the groups that hold an item of order k
GroupsOfOrder(k) ==
    {g \in DOMAIN pendingItemsByModel :
        \E p \in DOMAIN pendingItemsByModel[g].items :
            pendingItemsByModel[g].items[p].item[1] = k}

\* C13: two open orders of the same year whose model descriptions start with
\* the same two whitespace-separated tokens get the same group key, and their
\* unlinked relevant items are held by one and the same group.
C13_SameTwoTokensSameGroup ==
    \A a, b \in OpenOrders :
        (/\ Orders[a].year = Orders[b].year
         /\ Len(Tokens(Orders[a].modelDescRaw)) >= 2
         /\ FirstTwoTokens(Orders[a].modelDescRaw) = FirstTwoTokens(Orders[b].modelDescRaw))
        => /\ groupIdOf(Orders[a]) = groupIdOf(Orders[b])
           /\ Cardinality(GroupsOfOrder(a) \cup GroupsOfOrder(b)) <= 1

\* the first two tokens joined by one space
JoinTwo(tokens) ==
    IF tokens = <<>> THEN <<>>
    ELSE IF Len(tokens) = 1 THEN tokens[1]
    ELSE tokens[1] \o <<" ">> \o tokens[2]

\* C14: the group key of an order is the first two whitespace-separated tokens
\* of its model description, or of its raw model code when the description is
\* absent, or the generic placeholder when both are absent, followed by "|"
\* and the order's year.
C14_GroupKeyFromTwoTokens ==
    \A k \in OpenOrders :
        LET o == Orders[k]
            base == IF Tokens(o.modelDescRaw) # <<>> THEN JoinTwo(FirstTwoTokens(o.modelDescRaw))
                    ELSE IF Tokens(o.modelCodeRaw) # <<>>
                         THEN JoinTwo(FirstTwoTokens(o.modelCodeRaw))
                    ELSE GENERICO
        IN groupIdOf(o) = base \o <<"|">> \o yearOf(o)

----------------------------------------------------------------------------
(* Properties of the admission profiles (RulesSpec) *)

ActiveIndexes(list) == {i \in DOMAIN list : list[i].isActive}

RuleIds(list) == {list[i].id : i \in DOMAIN list}

\* C4: in every state reachable by addRule, updateRule, setActiveRule and
\* deleteRule calls, exactly one admission rule has isActive = TRUE.
C4_ExactlyOneActive == Cardinality(ActiveIndexes(rules)) = 1

\* C7: when deleteRule removes an active rule and at least one rule remains,
\* the first remaining rule is active and it is the only active rule.
C7_DeleteActiveFallsBackToFirst ==
    [][ ( /\ lastCall'.op = "deleteRule"
          /\ Len(rules') < Len(rules)
          /\ \E i \in DOMAIN rules : rules[i].id = lastCall'.id /\ rules[i].isActive
          /\ Len(rules') >= 1 )
        => ( rules'[1].isActive /\ ActiveIndexes(rules') = {1} ) ]_vars

\* C8: setActiveRule(id) on a listed id reaches, in the one step that changes
\* the list, the state where that rule is active and every other rule is not:
\* the step passes through no state with zero or two active rules.
C8_SetActiveRuleAtomic ==
    [][ ( /\ lastCall'.op = "setActiveRule"
          /\ lastCall'.id \in RuleIds(rules) )
        => ( /\ Len(rules') = Len(rules)
             /\ Cardinality(ActiveIndexes(rules')) = 1
             /\ \A i \in DOMAIN rules' :
                   /\ rules'[i].isActive <=> (rules'[i].id = lastCall'.id)
                   /\ rules'[i].id = rules[i].id
                   /\ rules'[i].placeholderCodes = rules[i].placeholderCodes ) ]_vars

C8_Witness ==
    /\ lastCall.op = "setActiveRule"
    /\ Len(rules) >= 2
    /\ rules[2].id = lastCall.id
    /\ rules[2].isActive
    /\ ~rules[1].isActive

\* C9: for every code, under the active rule: an empty placeholderCodes list
\* makes every code relevant; otherwise relevance equals placeholder membership.
C9_RelevanceFollowsWhitelist ==
    \A c \in CodeInputs \cup {toUpperCase(trim(simulatorCode))} :
        IF activeRule.placeholderCodes = <<>>
        THEN isItemRelevant(c) = TRUE
        ELSE isItemRelevant(c) = isPlaceholderCode(c)

C9_Witness ==
    /\ activeRule.id # 0
    /\ activeRule.placeholderCodes = <<>>
    /\ simulatorCode = FIL_ACE
    /\ simulationResult.isAdmitted
    /\ ~isPlaceholderCode(simulatorCode)

C9_WitnessClosed ==
    /\ activeRule.placeholderCodes # <<>>
    /\ simulatorCode = <<" ","M","o","0","0","6"," ">>
    /\ simulationResult.isAdmitted
    /\ isPlaceholderCode(simulatorCode)

----------------------------------------------------------------------------
(* Properties of the classification dictionary (ClassSpec) *)

KeywordHits(description) ==
    {i \in DOMAIN classificationRules :
        includes(toUpperCase(description), toUpperCase(classificationRules[i].keyword))}

\* C10: classifyItem returns the classification of the first rule in list
\* order whose keyword occurs in the upper-cased description, even when a
\* later rule matches with a longer keyword, and null when no rule matches.
C10_FirstMatchWins ==
    \A d \in DescInputs \cup {trim(simulatorDesc)} :
        LET hits == KeywordHits(d)
        IN IF hits = {} THEN classifyItem(d) = NoClassification
           ELSE \E i \in hits :
                   /\ \A j \in hits : i <= j
                   /\ classifyItem(d) = classificationRules[i].category

C10_Witness ==
    LET hits == KeywordHits(trim(simulatorDesc))
    IN /\ 1 \in hits
       /\ \E j \in hits : /\ j > 1
                          /\ Len(classificationRules[j].keyword)
                                > Len(classificationRules[1].keyword)
                          /\ classificationRules[j].category
                                # classificationRules[1].category
       /\ simulationResult.classification = classificationRules[1].category

----------------------------------------------------------------------------
(* Properties of the candidate ranking (MatchSpec) *)

Hints == IF aiAnalysis = <<>> THEN <<>> ELSE aiAnalysis[1].keywords

\* a hint keyword as it is compared: lower case, without surrounding blanks
NormalHint(p) == trim(LowerCaseTable[Hints[p]])

KeptHints == {p \in DOMAIN Hints : Len(NormalHint(p)) > 2}

\* the entries of the catalog the series context admits
SeriesEntries ==
    IF targetBydSeries = <<>> THEN {}
    ELSE {i \in DOMAIN mappings : matchSeries(mappings[i], toLowerCase(targetBydSeries))}

DescOf(m) == LowerCaseTable[m.description]

CodeOf(m) == LowerCaseTable[m.bydCode]

IsWholeToken(m, kw) ==
    LET tokens == splitTokens(DescOf(m)) IN \E t \in DOMAIN tokens : tokens[t] = kw

IsSubstring(m, kw) == includes(DescOf(m), kw)

InCode(m, kw) == includes(CodeOf(m), kw)

IsLongPrefix(m, kw) == startsWith(DescOf(m), kw) /\ Len(kw) > 4

NormalHints == [p \in DOMAIN Hints |-> NormalHint(p)]

\* the positions of the keywords kws that meet each condition on entry m
WholeTokenHints(m, kws) ==
    LET tokens == splitTokens(DescOf(m))
    IN {p \in DOMAIN kws : \E t \in DOMAIN tokens : tokens[t] = kws[p]}

SubstringHints(m, kws) ==
    LET desc == DescOf(m) IN {p \in DOMAIN kws : includes(desc, kws[p])}

CodeHints(m, kws) ==
    LET code == CodeOf(m) IN {p \in DOMAIN kws : includes(code, kws[p])}

LongPrefixHints(m, kws) ==
    LET desc == DescOf(m) IN {p \in DOMAIN kws : startsWith(desc, kws[p]) /\ Len(kws[p]) > 4}

\* every award whose condition a keyword meets, over all the hint keywords
AllAwards(m, kws) ==
    15 * Cardinality(WholeTokenHints(m, kws))
    + 8 * Cardinality(SubstringHints(m, kws))
    + 5 * Cardinality(CodeHints(m, kws))
    + 5 * Cardinality(LongPrefixHints(m, kws))

\* the awards of the keywords longer than two characters, the substring award
\* going only to a keyword that is not a whole token
KeptAwards(m, kws) ==
    LET kept == {p \in DOMAIN kws : Len(kws[p]) > 2}
        whole == WholeTokenHints(m, kws)
    IN 15 * Cardinality(whole \cap kept)
       + 8 * Cardinality((SubstringHints(m, kws) \ whole) \cap kept)
       + 5 * Cardinality(CodeHints(m, kws) \cap kept)
       + 5 * Cardinality(LongPrefixHints(m, kws) \cap kept)

ScoreOfEntry(i) == scoreOf(mappings[i], keywordsOf(aiAnalysis[1]))

\* C15: the score of a catalog entry is the sum, over all hint keywords, of every
\* award whose condition the keyword meets: 15 for a whole token of the description,
\* 8 for a substring of the description, 5 for an occurrence in the factory code,
\* 5 more if the description starts with the keyword and the keyword is longer
\* than 4 characters
C15_ScoreIsSumOfAllAwards ==
    aiAnalysis # <<>> =>
        LET keywords == keywordsOf(aiAnalysis[1])
            kws == NormalHints
        IN \A i \in SeriesEntries :
               scoreOf(mappings[i], keywords) = AllAwards(mappings[i], kws)

\* C15 (amended): the score of a catalog entry is the sum, over the hint keywords
\* that are longer than 2 characters once lower-cased and trimmed, of 15 if the
\* keyword equals a whole token of the description and otherwise 8 if it is a
\* substring of the description, plus 5 if it occurs in the factory code, plus 5
\* if the description starts with it and it is longer than 4 characters
C15_ScoreIsSumOfKeptAwards ==
    aiAnalysis # <<>> =>
        LET keywords == keywordsOf(aiAnalysis[1])
            kws == NormalHints
        IN \A i \in SeriesEntries :
               scoreOf(mappings[i], keywords) = KeptAwards(mappings[i], kws)

\* hints are in, and the series holds an entry with a whole-token keyword that is
\* also its prefix and in its code, and an entry with a substring-only keyword
C15_Witness ==
    /\ aiAnalysis # <<>>
    /\ \E i \in SeriesEntries : \E p \in KeptHints, r \in KeptHints :
          /\ IsWholeToken(mappings[i], NormalHint(p))
          /\ IsLongPrefix(mappings[i], NormalHint(p))
          /\ InCode(mappings[i], NormalHint(r))
          /\ ScoreOfEntry(i) > 15
    /\ \E i \in SeriesEntries : \E p \in KeptHints :
          /\ ~IsWholeToken(mappings[i], NormalHint(p))
          /\ IsSubstring(mappings[i], NormalHint(p))

\* where an entry stands in the catalog
CatalogPosition(entry) == CHOOSE i \in DOMAIN mappings : mappings[i] = entry

\* the scores of the entries of the series
SeriesScores ==
    IF aiAnalysis = <<>> THEN <<>>
    ELSE LET keywords == keywordsOf(aiAnalysis[1])
         IN [i \in SeriesEntries |-> scoreOf(mappings[i], keywords)]

\* the entries of the series that scored but are not in the list
LeftOut(ranked, score) ==
    {i \in DOMAIN score :
        score[i] > 0 /\ \A j \in DOMAIN ranked : ranked[j].entry # mappings[i]}

\* C16: the ranked candidate list has no entry of score 0, is ordered by
\* non-increasing score, keeps entries of equal score in catalog order, and holds
\* at most 20 entries, the highest-ranked ones under that order
C16_RankedListOrderedAndCapped ==
    LET ranked == aiSuggestedCandidates
        score == SeriesScores
        at == [j \in DOMAIN ranked |-> CatalogPosition(ranked[j].entry)]
        leftOut == LeftOut(ranked, score)
    IN /\ \A j \in DOMAIN ranked :
              /\ ranked[j].matchScore > 0
              /\ at[j] \in DOMAIN score
              /\ ranked[j].matchScore = score[at[j]]
       /\ \A j \in DOMAIN ranked : \A k \in DOMAIN ranked :
              j < k =>
                  \/ ranked[j].matchScore > ranked[k].matchScore
                  \/ ranked[j].matchScore = ranked[k].matchScore /\ at[j] < at[k]
       /\ Len(ranked) <= 20
       /\ \A i \in leftOut :
              /\ Len(ranked) = 20
              /\ \A j \in DOMAIN ranked :
                     \/ ranked[j].matchScore > score[i]
                     \/ ranked[j].matchScore = score[i] /\ at[j] < i

\* the list is full, entries that scored were left out, one of them with the score
\* of the last entry kept, and the order of the list is not the catalog's
C16_Witness ==
    LET ranked == aiSuggestedCandidates
        score == SeriesScores
        at == [j \in DOMAIN ranked |-> CatalogPosition(ranked[j].entry)]
    IN /\ Len(ranked) = 20
       /\ \E i \in LeftOut(ranked, score) : score[i] = ranked[20].matchScore
       /\ \E j \in DOMAIN ranked : \E k \in DOMAIN ranked :
              /\ j < k
              /\ ranked[j].matchScore > ranked[k].matchScore
              /\ at[j] > at[k]
       /\ \E j \in DOMAIN ranked : \E k \in DOMAIN ranked :
              j # k /\ ranked[j].matchScore = ranked[k].matchScore

\* the score of entry i for the hints without the one at position p
ScoreWithoutHint(i, p) ==
    scoreOf(mappings[i], keywordsOf([keywords |-> Remove(Hints, p)]))

\* C17: a hint keyword that equals a token of an entry's description never lowers
\* the entry's score: with the keyword the score is at least the score computed
\* for the same hints without it
C17_TokenKeywordNeverLowersScore ==
    aiAnalysis # <<>> =>
        LET keywords == keywordsOf(aiAnalysis[1])
            kws == NormalHints
        IN \A i \in SeriesEntries :
               LET score == scoreOf(mappings[i], keywords)
               IN \A p \in WholeTokenHints(mappings[i], kws) :
                      score >= ScoreWithoutHint(i, p)

\* an entry scores more with a keyword that equals one of its tokens than with the
\* other hints alone, which score as well
C17_Witness ==
    /\ aiAnalysis # <<>>
    /\ \E i \in SeriesEntries : \E p \in DOMAIN Hints :
          /\ IsWholeToken(mappings[i], NormalHint(p))
          /\ ScoreWithoutHint(i, p) > 0
          /\ ScoreOfEntry(i) > ScoreWithoutHint(i, p)

\* C18: with an empty series context the candidate list offered for an item is
\* empty, the filtered listing as well as the ranked one, and with an empty hint
\* set the ranked list is empty
C18_EmptyContextNoCandidates ==
    /\ targetBydSeries = <<>> =>
           /\ filteredCandidates = <<>>
           /\ filteredCandidatesBySeries = <<>>
           /\ aiSuggestedCandidates = <<>>
    /\ Hints = <<>> => aiSuggestedCandidates = <<>>

----------------------------------------------------------------------------
(* Properties of the master catalog (StoreSpec) *)

\* C20: a failed call to the catalog store leaves the local catalog unchanged: an
\* entry leaves the local catalog only once its deletion was confirmed, and enters
\* it only once its creation was confirmed
C20_FailedStoreCallLeavesCatalog ==
    [][/\ lastEvent'.op \in {"createMappingResponse", "deleteMappingResponse"}
             /\ ~lastEvent'.ok
          => mappings' = mappings
       /\ lastEvent'.op \in {"addMapping", "removeMapping"} => mappings' = mappings]_vars

----------------------------------------------------------------------------
(* Properties of the code comparison (RulesSpec) *)

\* the comparison key of a code: p.trim().toUpperCase()
Normalized(code) == toUpperCase(trim(code))

IsBlank(s) == \A k \in DOMAIN s : IsSpace(s[k])

\* code without its surrounding blanks, stated without trim
Cores(code) ==
    {SubSeq(code, i, j) : <<i, j>> \in
        {ij \in (1..(Len(code) + 1)) \X (0..Len(code)) :
            /\ IsBlank(SubSeq(code, 1, ij[1] - 1))
            /\ IsBlank(SubSeq(code, ij[2] + 1, Len(code)))
            /\ \/ ij[1] > ij[2]
               \/ ~IsSpace(code[ij[1]]) /\ ~IsSpace(code[ij[2]])}}

SameLetter(a, b) ==
    \/ a = b
    \/ \E n \in DOMAIN LowerChars : {a, b} = {LowerChars[n], UpperChars[n]}

SameUpToCase(x, y) ==
    Len(x) = Len(y) /\ \A k \in DOMAIN x : SameLetter(x[k], y[k])

\* two codes that differ only in letter case or surrounding blanks
SameCode(a, b) == \E x \in Cores(a) : \E y \in Cores(b) : SameUpToCase(x, y)

AllPlaceholders ==
    UNION {{rules[i].placeholderCodes[k] : k \in DOMAIN rules[i].placeholderCodes} :
              i \in DOMAIN rules}

\* C23: the comparison key (trim, upper case) is idempotent and is taken of the
\* queried code and of every placeholder entry, so two codes that differ only in
\* letter case or surrounding blanks get the same answer from isPlaceholderCode
\* and from isItemRelevant
C23_NormalizedComparison ==
    /\ \A c \in CodeInputs \cup AllPlaceholders :
           Normalized(Normalized(c)) = Normalized(c)
    /\ \A c \in CodeInputs :
           isPlaceholderCode(c) <=>
               \E k \in DOMAIN activeRule.placeholderCodes :
                   SameCode(activeRule.placeholderCodes[k], c)
    /\ \A c \in CodeInputs : \A d \in CodeInputs :
           SameCode(c, d) =>
               /\ isPlaceholderCode(c) = isPlaceholderCode(d)
               /\ isItemRelevant(c) = isItemRelevant(d)

\* the active profile lists " mo006 ", and both " Mo006 " and "MO006" are
\* placeholders under it while FIL-ACE is not
C23_Witness ==
    /\ \E k \in DOMAIN activeRule.placeholderCodes :
           activeRule.placeholderCodes[k] = <<" ","m","o","0","0","6"," ">>
    /\ isPlaceholderCode(<<" ","M","o","0","0","6"," ">>)
    /\ isPlaceholderCode(MO006)
    /\ isItemRelevant(<<"m","o","0","0","6">>)
    /\ ~isPlaceholderCode(FIL_ACE)

----------------------------------------------------------------------------
(* Properties of the rule list (RulesSpec) *)

----------------------------------------------------------------------------
(* Properties of the classification rule list (ClassSpec) *)

\* the description contains the keyword of the rule, letter case ignored
RuleHits(r, description) ==
    includes(toUpperCase(description), toUpperCase(r.keyword))

\* C30: addClassificationRule puts the new rule ahead of the existing rules,
\* which keep their order, and every description that contains the new keyword
\* is then classified by the new rule, whichever older keywords it contains
\* too; deleteClassificationRule keeps the remaining rules in their order
C30_NewRuleFirstOrderKept ==
    [][/\ nextUuid' # nextUuid =>
            /\ classificationRules' # <<>>
            /\ classificationRules'[1].id = nextUuid
            /\ Tail(classificationRules') = classificationRules
            /\ \A d \in DescInputs :
                  RuleHits(classificationRules'[1], d) =>
                     classifyItemWith(classificationRules', d)
                        = classificationRules'[1].category
       /\ nextUuid' = nextUuid =>
            /\ Len(classificationRules') <= Len(classificationRules)
            /\ \A i, j \in DOMAIN classificationRules' :
                  i < j => \E a, b \in DOMAIN classificationRules :
                              /\ a < b
                              /\ classificationRules[a] = classificationRules'[i]
                              /\ classificationRules[b] = classificationRules'[j]]_vars

\* the description in the simulator contains the keyword of an added rule and
\* the keyword of an older rule of another category, an older rule standing
\* before that one has been deleted, and the added rule classifies
C30_Witness ==
    /\ Len(classificationRules) >= 3
    /\ classificationRules[1].id >= FirstUuid
    /\ classificationRules[2].id # 1
    /\ \E j \in 2..Len(classificationRules) :
          /\ classificationRules[j].id < FirstUuid
          /\ classificationRules[j].keyword # <<>>
          /\ RuleHits(classificationRules[j], trim(simulatorDesc))
          /\ classificationRules[j].category # classificationRules[1].category
    /\ classificationRules[1].keyword # <<>>
    /\ RuleHits(classificationRules[1], trim(simulatorDesc))
    /\ simulationResult.classification = classificationRules[1].category

----------------------------------------------------------------------------
(* Properties of the sheet import (UploadSpec) *)

\* some row of the sheet has a value under the factory-code header
HasCodeColumn(sheet) ==
    \E k \in DOMAIN sheet : Truthy(Cell(sheet[k], "Repair item code"))

\* the last step was the onload of a sheet without a factory-code column
FailedUpload(event) ==
    /\ event.op = "fileLoaded"
    /\ ~HasCodeColumn(event.req[1])

\* C21: the onload of a sheet without a factory-code column shows the warning
\* that names the missing field and builds nothing; a proceedToInsertion that
\* follows it builds no rows and a confirmFinalInsertion that follows it sends
\* none, whatever was uploaded before
C21_FailedUploadBuildsNoRows ==
    [][/\ FailedUpload(lastEvent') =>
            /\ notification' = <<NoCodeColumnToast>>
            /\ insertionData' = insertionData
            /\ inflight' = inflight
       /\ (FailedUpload(lastEvent) /\ lastEvent'.op = "proceedToInsertion") =>
            insertionData' = <<>>
       /\ (FailedUpload(lastEvent) /\ lastEvent'.op = "confirmFinalInsertion") =>
            /\ inflight' = inflight
            /\ ~lastEvent'.ok]_vars

----------------------------------------------------------------------------
(* Properties of the keyword hints (MatchSpec) *)

FailingOutcomes == ProviderOutcomes \ {"answered"}

\* C22: without an API key, with a failed provider call or a response without
\* text, translateToKeywords answers an empty keyword list and suggestMapping
\* an empty list, neither raises; after such an analysis the ranked candidate
\* list is empty and isAiAnalyzing is false again
C22_UnavailableProviderMeansNoHints ==
    /\ \A outcome \in FailingOutcomes :
          /\ \A answer \in AnalysisInputs :
                LET result == translateToKeywords(outcome, answer)
                IN result # Raised /\ result.keywords = <<>>
          /\ \A answer \in SuggestionInputs : suggestMapping(outcome, answer) = <<>>
    /\ (lastEvent.op = "translateToKeywordsResponse" /\ ~lastEvent.ok) =>
          /\ aiAnalysis # <<>>
          /\ aiAnalysis[1].keywords = <<>>
          /\ aiSuggestedCandidates = <<>>
          /\ ~isAiAnalyzing

\* the analysis of an item has ended without hints while the catalog holds
\* entries of the series of the dialog
C22_Witness ==
    /\ lastEvent.op = "translateToKeywordsResponse"
    /\ ~lastEvent.ok
    /\ itemToLink # <<>>
    /\ targetBydSeries # <<>>
    /\ filteredCandidatesBySeries # <<>>
    /\ aiSuggestedCandidates = <<>>
    /\ ~isAiAnalyzing

----------------------------------------------------------------------------
(* Properties of a link answered after the selection has moved (LinkSpec) *)

\* C24: when another order has been selected while a single link was in
\* flight, the positive answer marks the item of the order on which the link
\* was confirmed and nothing else: the order selected in the meantime keeps
\* its items and its place in the list, and so does every other order
C24_LinkMarksTheConfirmedOrder ==
    [][(/\ lastEvent'.op = "linkResponse"
        /\ lastEvent'.ok
        /\ selectedOrder # <<>>
        /\ OrderValue(selectedOrder[1]).id # lastEvent'.req[1].orderId) =>
          LET req == lastEvent'.req[1]
          IN /\ selectedOrder' = selectedOrder
             /\ Len(rawOrders') = Len(rawOrders)
             /\ \A k \in DOMAIN rawOrders :
                   IF Orders[k].id = req.orderId
                   THEN \A j \in DOMAIN Orders[k].items :
                           IF Orders[k].items[j].code = req.daltonCode
                           THEN /\ OrderValue(rawOrders'[k]).items[j].isLinked
                                /\ OrderValue(rawOrders'[k]).items[j].linkedBydCode
                                      = req.cand.bydCode
                           ELSE OrderValue(rawOrders'[k]).items[j] = Orders[k].items[j]
                   ELSE rawOrders'[k] = rawOrders[k]]_vars

----------------------------------------------------------------------------
(* Properties of repeated transmission (TransmitSpec) *)

\* C25: the transmission collaborator is never called for an order whose
\* transmission has already been answered true
C25_NoSecondTransmission ==
    [][lastEvent'.op = "confirmTransmission" =>
          lastEvent'.req[1].roNumber \notin transmitted]_vars

----------------------------------------------------------------------------
(* Properties of overlapping fetches (FetchSpec) *)

\* C26: once every response has arrived the list holds the result of the
\* fetch started last: a response to a fetch started for a dealer that is no
\* longer selected, arriving when no other fetch is pending, is discarded and
\* leaves the order list as the later fetch set it
C26_LateResponseDiscarded ==
    [][(/\ lastEvent'.op = "getOrdersResponse"
        /\ lastEvent'.req[1].dealer # selectedDealerCode
        /\ \A n \in DOMAIN inflight' : inflight'[n].kind # "getOrders") =>
          rawOrders' = rawOrders]_vars

----------------------------------------------------------------------------
(* Properties of the selection (SelectionSpec) *)

\* C27: the selected order has the items, link flags and status of the order
\* of the list that has its id
C27_SelectionAgreesWithList ==
    selectedOrder # <<>> =>
       LET selected == OrderValue(selectedOrder[1])
       IN \A k \in DOMAIN Orders :
             Orders[k].id = selected.id =>
                /\ Orders[k].items = selected.items
                /\ Orders[k].status = selected.status

----------------------------------------------------------------------------
(* Properties of the busy flags (BusySpec) *)

\* C28: isLoading set by fetchOrders and isBatchProcessing set by
\* confirmBatchLink are false again once the call is answered, whether the
\* answer is positive or negative; a confirmBatchLink without target code or
\* without selection leaves isBatchProcessing as it was
C28_BusyFlagsAreReset ==
    /\ isLoading ~> ~isLoading
    /\ isBatchProcessing ~> ~isBatchProcessing
    /\ [][/\ lastEvent'.op = "getOrdersResponse" => ~isLoading'
          /\ lastEvent'.op = "batchLinkResponse" => ~isBatchProcessing'
          /\ (lastEvent'.op = "confirmBatchLink" /\ ~lastEvent'.ok)
             => (isBatchProcessing' = isBatchProcessing /\ inflight' = inflight)]_vars

\* a batch link was answered false and the flag is down again
C28_Witness ==
    /\ lastEvent.op = "batchLinkResponse"
    /\ ~lastEvent.ok
    /\ ~isBatchProcessing
    /\ rawOrders # <<>>

====
